---- MODULE Spec2Model ----
(***************************************************************************)
(* Referral bonus resolution: the tier table, the global campaign and      *)
(* client override stores, the user table, and the handlers of             *)
(* backend/api/v1/routes/referral_tier_routes.py that write and read them, *)
(* with create_user of backend/api/v1/services/auth_service.py.            *)
(*                                                                         *)
(* The SQL statements of the handlers are evaluated as written against the *)
(* tables.  Every handler is called by an authenticated administrator      *)
(* (get_my_tier: by an authenticated user), so require_admin_access        *)
(* returns.  bonus_percentage is a whole number of percent, and a          *)
(* timestamp is a whole number of clock ticks.                             *)
(***************************************************************************)
EXTENDS Integers, Sequences, FiniteSets, TLC

VARIABLES
    users,                      \* seq of user documents; user_id = index
    tables_created,             \* the three referral tables exist
    referral_tiers,             \* rows of referral_tiers
    referral_global_overrides,  \* rows of referral_global_overrides
    referral_client_overrides,  \* rows of referral_client_overrides
    now,                        \* the clock read by datetime.now
    admin_ops,                  \* number of admin write requests so far
    resp,                       \* the response of the last request
    books,                      \* the documents the analytics routes read
    calls                       \* the requests in progress, step by step

vars == <<users, tables_created, referral_tiers, referral_global_overrides,
          referral_client_overrides, now, admin_ops, resp, books, calls>>

store == <<users, referral_tiers, referral_global_overrides,
           referral_client_overrides>>

----------------------------------------------------------------------------
(* Bounds *)

MaxTime == 2
MaxUsers == 2
MaxAdminOps == 2
MaxOverrideIds == 2
MaxCount == 52
MaxSignups == 3

(* SQL NULL / Python None in an integer column *)
NULL == -1

(* A user_id, override_id or tier_id that no record has *)
GhostUser == 0
GhostOverride == 0
GhostTier == "NOSUCH"

NoName == "none"

----------------------------------------------------------------------------
(* Rows and result sets *)

NoRow == [none |-> TRUE]

\* no analytics documents, no request in progress
NoBooks == [orders |-> {}, referral_earnings |-> {}, accounts |-> {}]
NoCalls == <<>>

\* fetch_one over a result set without ORDER BY: some row, or None
FetchOne(rows) == IF rows = {} THEN {NoRow} ELSE rows

\* ORDER BY min_referrals ASC: the orders the database may deliver
\* (rows with equal min_referrals in either order)
RECURSIVE OrderByMinReferralsAsc(_)
OrderByMinReferralsAsc(rows) ==
    IF rows = {} THEN {<< >>}
    ELSE LET firsts == {r \in rows :
                          \A q \in rows : r.min_referrals <= q.min_referrals}
         IN UNION {{<<r>> \o rest : rest \in OrderByMinReferralsAsc(rows \ {r})}
                   : r \in firsts}

----------------------------------------------------------------------------
(* ensure_tier_tables *)

\* the Silver seed starting at 8, one above the end of Starter
default_tiers_SilverFrom8 ==
    << [tier_id |-> "STARTER",  tier_name |-> "Starter",
        min_referrals |-> 0,  max_referrals |-> 6,    bonus_percentage |-> 10],
       [tier_id |-> "SILVER",   tier_name |-> "Silver",
        min_referrals |-> 8,  max_referrals |-> 14,   bonus_percentage |-> 15],
       [tier_id |-> "GOLD",     tier_name |-> "Gold",
        min_referrals |-> 15, max_referrals |-> 29,   bonus_percentage |-> 20],
       [tier_id |-> "PLATINUM", tier_name |-> "Platinum",
        min_referrals |-> 30, max_referrals |-> 49,   bonus_percentage |-> 25],
       [tier_id |-> "RUBY",     tier_name |-> "Ruby",
        min_referrals |-> 50, max_referrals |-> NULL, bonus_percentage |-> 30] >>

default_tiers ==
    << [tier_id |-> "STARTER",  tier_name |-> "Starter",
        min_referrals |-> 0,  max_referrals |-> 6,    bonus_percentage |-> 10],
       [tier_id |-> "SILVER",   tier_name |-> "Silver",
        min_referrals |-> 7,  max_referrals |-> 14,   bonus_percentage |-> 15],
       [tier_id |-> "GOLD",     tier_name |-> "Gold",
        min_referrals |-> 15, max_referrals |-> 29,   bonus_percentage |-> 20],
       [tier_id |-> "PLATINUM", tier_name |-> "Platinum",
        min_referrals |-> 30, max_referrals |-> 49,   bonus_percentage |-> 25],
       [tier_id |-> "RUBY",     tier_name |-> "Ruby",
        min_referrals |-> 50, max_referrals |-> NULL, bonus_percentage |-> 30] >>

\* the INSERT of one default tier; is_active takes the column default TRUE
SeedRow(d) ==
    [tier_id |-> d.tier_id, tier_name |-> d.tier_name,
     min_referrals |-> d.min_referrals, max_referrals |-> d.max_referrals,
     bonus_percentage |-> d.bonus_percentage, is_active |-> TRUE]

SeededTiers == {SeedRow(default_tiers[i]) : i \in DOMAIN default_tiers}

\* the defaults inserted on every call, whatever COUNT(*) is
EnsuredTiers_Reseed(tiers) == SeededTiers

\* the tier table after ensure_tier_tables: seeded when COUNT(*) = 0
EnsuredTiers(tiers) == IF Cardinality(tiers) = 0 THEN SeededTiers ELSE tiers

ensure_tier_tables ==
    /\ tables_created' = TRUE
    /\ referral_tiers' = EnsuredTiers(referral_tiers)

----------------------------------------------------------------------------
(* Referral counter *)

\* SELECT COUNT(*) FROM users WHERE referred_by_user_id = $1
ReferralCount(user_id) ==
    Cardinality({i \in DOMAIN users : users[i].referred_by_user_id = user_id})

----------------------------------------------------------------------------
(* get_effective_bonus *)

\* WHERE user_id = $1 AND is_active = TRUE
ClientOverrideRows(user_id) ==
    {o \in referral_client_overrides : o.user_id = user_id /\ o.is_active}

\* an override still used at the instant it expires
NotExpired_Inclusive(co, at) == co.expires_at = NULL \/ co.expires_at >= at

\* client_override['expires_at'] is None or client_override['expires_at'] > now
NotExpired(co, at) == co.expires_at = NULL \/ co.expires_at > at

\* the end of the window taken as exclusive
CampaignActive_ExclusiveEnd(g, at) ==
    g.is_active /\ g.start_date <= at /\ g.end_date > at

\* WHERE is_active = TRUE AND start_date <= $1 AND end_date >= $1
CampaignActive(g, at) == g.is_active /\ g.start_date <= at /\ g.end_date >= at

ActiveCampaigns(at) == {g \in referral_global_overrides : CampaignActive(g, at)}

\* LIMIT 1 without the ORDER BY
SelectCampaign_Unordered(at) == FetchOne(ActiveCampaigns(at))

\* ... ORDER BY bonus_percentage DESC LIMIT 1: a row whose percentage is
\* greatest, or None
SelectCampaign(at) ==
    FetchOne({g \in ActiveCampaigns(at) :
                \A q \in ActiveCampaigns(at) :
                   q.bonus_percentage <= g.bonus_percentage})

\* the upper bound of a band taken as exclusive
TierMatches_ExclusiveMax(t, count) ==
    /\ t.is_active
    /\ t.min_referrals <= count
    /\ (t.max_referrals = NULL \/ t.max_referrals > count)

\* the upper bound of a band not tested
TierMatches_NoMax(t, count) ==
    /\ t.is_active
    /\ t.min_referrals <= count

\* WHERE is_active = TRUE AND min_referrals <= $1
\*   AND (max_referrals IS NULL OR max_referrals >= $1)
TierMatches(t, count) ==
    /\ t.is_active
    /\ t.min_referrals <= count
    /\ (t.max_referrals = NULL \/ t.max_referrals >= count)

MatchingTiers(tiers, count) == {t \in tiers : TierMatches(t, count)}

\* ORDER BY min_referrals ASC in place of DESC
SelectTier_LowestBand(tiers, count) ==
    FetchOne({t \in MatchingTiers(tiers, count) :
                \A q \in MatchingTiers(tiers, count) :
                   t.min_referrals <= q.min_referrals})

\* ... ORDER BY min_referrals DESC LIMIT 1: a row whose min_referrals is
\* greatest, or None
SelectTier(tiers, count) ==
    FetchOne({t \in MatchingTiers(tiers, count) :
                \A q \in MatchingTiers(tiers, count) :
                   q.min_referrals <= t.min_referrals})

DefaultPercentage == 10

\* the campaign consulted before the client override
EffectiveBonusBody_CampaignFirst(user_id, at, count, co, go, tier) ==
    IF go # NoRow
    THEN [referral_count |-> count,
          effective_percentage |-> go.bonus_percentage,
          source |-> "global_campaign",
          label |-> go.name,
          details |-> go]
    ELSE IF co # NoRow /\ NotExpired(co, at)
    THEN [referral_count |-> count,
          effective_percentage |-> co.bonus_percentage,
          source |-> "individual_override",
          label |-> co.reason,
          details |-> co]
    ELSE IF tier # NoRow
    THEN [referral_count |-> count,
          effective_percentage |-> tier.bonus_percentage,
          source |-> "tier",
          label |-> tier.tier_name,
          details |-> tier]
    ELSE [referral_count |-> count,
          effective_percentage |-> DefaultPercentage,
          source |-> "default",
          label |-> NoName,
          details |-> NoRow]

\* the tier consulted before the campaign
EffectiveBonusBody_TierFirst(user_id, at, count, co, go, tier) ==
    IF co # NoRow /\ NotExpired(co, at)
    THEN [referral_count |-> count,
          effective_percentage |-> co.bonus_percentage,
          source |-> "individual_override",
          label |-> co.reason,
          details |-> co]
    ELSE IF tier # NoRow
    THEN [referral_count |-> count,
          effective_percentage |-> tier.bonus_percentage,
          source |-> "tier",
          label |-> tier.tier_name,
          details |-> tier]
    ELSE IF go # NoRow
    THEN [referral_count |-> count,
          effective_percentage |-> go.bonus_percentage,
          source |-> "global_campaign",
          label |-> go.name,
          details |-> go]
    ELSE [referral_count |-> count,
          effective_percentage |-> DefaultPercentage,
          source |-> "default",
          label |-> NoName,
          details |-> NoRow]

\* the response body built from the three fetched rows
EffectiveBonusBody(user_id, at, count, co, go, tier) ==
    IF co # NoRow /\ NotExpired(co, at)
    THEN [referral_count |-> count,
          effective_percentage |-> co.bonus_percentage,
          source |-> "individual_override",
          label |-> co.reason,
          details |-> co]
    ELSE IF go # NoRow
    THEN [referral_count |-> count,
          effective_percentage |-> go.bonus_percentage,
          source |-> "global_campaign",
          label |-> go.name,
          details |-> go]
    ELSE IF tier # NoRow
    THEN [referral_count |-> count,
          effective_percentage |-> tier.bonus_percentage,
          source |-> "tier",
          label |-> tier.tier_name,
          details |-> tier]
    ELSE [referral_count |-> count,
          effective_percentage |-> DefaultPercentage,
          source |-> "default",
          label |-> NoName,
          details |-> NoRow]

\* every body get_effective_bonus can return for user_id at time `at`
\* when the tier table it reads is `tiers`
EffectiveBonusResults(user_id, at, tiers) ==
    LET count == ReferralCount(user_id)
    IN {EffectiveBonusBody(user_id, at, count, co, go, tier) :
          co \in FetchOne(ClientOverrideRows(user_id)),
          go \in SelectCampaign(at),
          tier \in SelectTier(tiers, count)}

get_effective_bonus(user_id) ==
    /\ UNCHANGED <<books, calls>>
    /\ ensure_tier_tables
    /\ \E body \in EffectiveBonusResults(user_id, now, referral_tiers') :
         resp' = [op |-> "get_effective_bonus", status |-> 200,
                  user_id |-> user_id, body |-> body]
    /\ UNCHANGED <<users, referral_global_overrides,
                   referral_client_overrides, now, admin_ops>>

----------------------------------------------------------------------------
(* get_my_tier *)

\* WHERE is_active = TRUE ORDER BY min_referrals ASC
\* the query without WHERE is_active = TRUE
AllTiersResults_WithInactive(tiers) == OrderByMinReferralsAsc(tiers)

AllTiersResults(tiers) == OrderByMinReferralsAsc({t \in tiers : t.is_active})

\* the for loop over all_tiers from position i with the loop variables in acc
RECURSIVE TierWalk(_, _, _, _)
TierWalk(all_tiers, i, count, acc) ==
    IF i > Len(all_tiers) THEN acc
    ELSE LET tier == all_tiers[i]
         IN IF count >= tier.min_referrals
            THEN TierWalk(all_tiers, i + 1, count,
                          [acc EXCEPT !.effective_pct = tier.bonus_percentage,
                                      !.current_tier = tier.tier_name])
            ELSE [acc EXCEPT !.next_tier = tier.tier_name,
                             !.referrals_to_next = tier.min_referrals - count]

TierWalkStart ==
    [effective_pct |-> DefaultPercentage, current_tier |-> "Starter",
     next_tier |-> NoName, referrals_to_next |-> NULL]

\* WHERE user_id = $1 AND is_active = TRUE
\*   AND (expires_at IS NULL OR expires_at > $2)
MyTierOverrideRows(user_id, at) ==
    {o \in referral_client_overrides :
       /\ o.user_id = user_id
       /\ o.is_active
       /\ (o.expires_at = NULL \/ o.expires_at > at)}

\* WHERE is_active = TRUE AND start_date <= $1 AND end_date >= $1 LIMIT 1
MyTierCampaign(at) == FetchOne(ActiveCampaigns(at))

\* the promotion shown whenever a campaign runs, client override or not
MyTierBody_PromotionAlways(count, all_tiers, co, go) ==
    LET walk == TierWalk(all_tiers, 1, count, TierWalkStart)
        pct1 == IF co # NoRow THEN co.bonus_percentage ELSE walk.effective_pct
        promo == go # NoRow
    IN [referral_count |-> count,
        current_tier |-> walk.current_tier,
        effective_percentage |-> IF promo THEN go.bonus_percentage ELSE pct1,
        next_tier |-> walk.next_tier,
        referrals_to_next |-> walk.referrals_to_next,
        promotion_active |-> promo,
        promotion_name |-> IF promo THEN go.name ELSE NoName,
        all_tiers |-> all_tiers]

MyTierBody(count, all_tiers, co, go) ==
    LET walk == TierWalk(all_tiers, 1, count, TierWalkStart)
        pct1 == IF co # NoRow THEN co.bonus_percentage ELSE walk.effective_pct
        promo == go # NoRow /\ co = NoRow
    IN [referral_count |-> count,
        current_tier |-> walk.current_tier,
        effective_percentage |-> IF promo THEN go.bonus_percentage ELSE pct1,
        next_tier |-> walk.next_tier,
        referrals_to_next |-> walk.referrals_to_next,
        promotion_active |-> promo,
        promotion_name |-> IF promo THEN go.name ELSE NoName,
        all_tiers |-> all_tiers]

\* every body get_my_tier can return for user_id at time `at`
MyTierResults(user_id, at, tiers) ==
    LET count == ReferralCount(user_id)
    IN {MyTierBody(count, all_tiers, co, go) :
          all_tiers \in AllTiersResults(tiers),
          co \in FetchOne(MyTierOverrideRows(user_id, at)),
          go \in MyTierCampaign(at)}

get_my_tier(user_id) ==
    /\ UNCHANGED <<books, calls>>
    /\ ensure_tier_tables
    /\ \E body \in MyTierResults(user_id, now, referral_tiers') :
         resp' = [op |-> "get_my_tier", status |-> 200,
                  user_id |-> user_id, body |-> body]
    /\ UNCHANGED <<users, referral_global_overrides,
                   referral_client_overrides, now, admin_ops>>

----------------------------------------------------------------------------
(* Admin requests *)

Reply(op, status, user_id, body) ==
    [op |-> op, status |-> status, user_id |-> user_id, body |-> body]

Success(message) == [success |-> TRUE, message |-> message]
Failure(detail) == [success |-> FALSE, message |-> detail]

\* the le=100 left off the field
ValidPercentage_NoUpperBound(p) == 0 <= p

\* bonus_percentage: float = Field(..., ge=0, le=100)
ValidPercentage(p) == 0 <= p /\ p <= 100

\* a request body that fails validation is answered 422 and the handler
\* is not run
Rejected(op) ==
    /\ admin_ops' = admin_ops + 1
    /\ resp' = Reply(op, 422, GhostUser, Failure("validation error"))
    /\ UNCHANGED <<users, tables_created, referral_tiers,
                   referral_global_overrides, referral_client_overrides, now>>

\* an execute against a table that was never created raises
NoTables(op) ==
    /\ ~tables_created
    /\ resp' = Reply(op, 500, GhostUser, Failure("undefined table"))
    /\ UNCHANGED <<users, tables_created, referral_tiers,
                   referral_global_overrides, referral_client_overrides, now>>

\* str(uuid.uuid4()): an id no row of the table has
FreshId(rows) ==
    LET used == {r.override_id : r \in rows}
    IN CHOOSE i \in (1..MaxOverrideIds) \ used :
         \A j \in (1..MaxOverrideIds) \ used : i <= j

HasFreshId(rows) == (1..MaxOverrideIds) \ {r.override_id : r \in rows} # {}

\* UPDATE referral_tiers SET ... WHERE tier_id = $1
TierRow(tier_id, data) ==
    [tier_id |-> tier_id, tier_name |-> data.tier_name,
     min_referrals |-> data.min_referrals, max_referrals |-> data.max_referrals,
     bonus_percentage |-> data.bonus_percentage, is_active |-> data.is_active]

\* tier_name VARCHAR(50) UNIQUE NOT NULL
TierNameTaken(tiers, tier_id, tier_name) ==
    /\ \E t \in tiers : t.tier_id = tier_id
    /\ \E t \in tiers : t.tier_id # tier_id /\ t.tier_name = tier_name

update_tier(tier_id, data) ==
    /\ UNCHANGED <<books, calls>>
    /\ IF ~ValidPercentage(data.bonus_percentage)
       THEN Rejected("update_tier")
       ELSE /\ admin_ops' = admin_ops + 1
            /\ tables_created' = TRUE
            /\ LET tiers == EnsuredTiers(referral_tiers)
               IN IF TierNameTaken(tiers, tier_id, data.tier_name)
                  THEN /\ referral_tiers' = tiers
                       /\ resp' = Reply("update_tier", 500, GhostUser,
                                        Failure("unique violation"))
                  ELSE /\ referral_tiers' =
                            {IF t.tier_id = tier_id THEN TierRow(tier_id, data) ELSE t
                             : t \in tiers}
                       /\ resp' = Reply("update_tier", 200, GhostUser,
                                        Success("Tier updated"))
            /\ UNCHANGED <<users, referral_global_overrides,
                           referral_client_overrides, now>>

\* the handlers await every statement, and between two statements of one
\* request other requests run: a request in progress lives through each
\* override write that completes before it returns
Witnessed(cs) ==
    [i \in DOMAIN cs |->
       IF cs[i].pc = "done"
       THEN cs[i]
       ELSE [cs[i] EXCEPT !.seen = @ \cup {store'}, !.writes = @ + 1]]

\* is_active left out of the written columns
GlobalRow_AlwaysActive(override_id, data) ==
    [override_id |-> override_id, name |-> data.name,
     bonus_percentage |-> data.bonus_percentage,
     start_date |-> data.start_date, end_date |-> data.end_date,
     is_active |-> TRUE]

GlobalRow(override_id, data) ==
    [override_id |-> override_id, name |-> data.name,
     bonus_percentage |-> data.bonus_percentage,
     start_date |-> data.start_date, end_date |-> data.end_date,
     is_active |-> data.is_active]

create_global_override(data) ==
    /\ UNCHANGED books
    /\ IF ~ValidPercentage(data.bonus_percentage)
       THEN Rejected("create_global_override")
       ELSE /\ HasFreshId(referral_global_overrides)
            /\ admin_ops' = admin_ops + 1
            /\ ensure_tier_tables
            /\ LET override_id == FreshId(referral_global_overrides)
               IN /\ referral_global_overrides' =
                       referral_global_overrides \cup {GlobalRow(override_id, data)}
                  /\ resp' = Reply("create_global_override", 200, GhostUser,
                                   Success("Global override created"))
            /\ UNCHANGED <<users, referral_client_overrides, now>>
    /\ calls' = Witnessed(calls)

update_global_override(override_id, data) ==
    /\ UNCHANGED books
    /\ IF ~ValidPercentage(data.bonus_percentage)
       THEN Rejected("update_global_override")
       ELSE /\ admin_ops' = admin_ops + 1
            /\ \/ NoTables("update_global_override")
               \/ /\ tables_created
                  /\ referral_global_overrides' =
                       {IF g.override_id = override_id
                        THEN GlobalRow(override_id, data) ELSE g
                        : g \in referral_global_overrides}
                  /\ resp' = Reply("update_global_override", 200, GhostUser,
                                   Success("Global override updated"))
                  /\ UNCHANGED <<users, tables_created, referral_tiers,
                                 referral_client_overrides, now>>
    /\ calls' = Witnessed(calls)

delete_global_override(override_id) ==
    /\ UNCHANGED books
    /\ admin_ops' = admin_ops + 1
    /\ \/ NoTables("delete_global_override")
       \/ /\ tables_created
          /\ referral_global_overrides' =
               {g \in referral_global_overrides : g.override_id # override_id}
          /\ resp' = Reply("delete_global_override", 200, GhostUser,
                           Success("Global override deleted"))
          /\ UNCHANGED <<users, tables_created, referral_tiers,
                         referral_client_overrides, now>>
    /\ calls' = Witnessed(calls)

\* SELECT user_id FROM users WHERE user_id = $1
\* the user lookup taken to find a row for every user_id
UserExists_Always(user_id) == TRUE

UserExists(user_id) == user_id \in DOMAIN users

\* INSERT INTO referral_client_overrides ...; is_active takes the default TRUE
ClientRow(override_id, data) ==
    [override_id |-> override_id, user_id |-> data.user_id,
     bonus_percentage |-> data.bonus_percentage,
     expires_at |-> data.expires_at, reason |-> data.reason,
     is_active |-> TRUE]

\* reason left out of the SET list
ClientUpsert_KeepsReason(o, data) ==
    IF o.user_id = data.user_id
    THEN [o EXCEPT !.bonus_percentage = data.bonus_percentage,
                   !.expires_at = data.expires_at,
                   !.is_active = TRUE]
    ELSE o

\* UPDATE ... SET bonus_percentage = $2, expires_at = $3, reason = $4,
\*   is_active = TRUE WHERE user_id = $1
ClientUpsert(o, data) ==
    IF o.user_id = data.user_id
    THEN [o EXCEPT !.bonus_percentage = data.bonus_percentage,
                   !.expires_at = data.expires_at,
                   !.reason = data.reason,
                   !.is_active = TRUE]
    ELSE o

create_client_override(data) ==
    /\ UNCHANGED books
    /\ IF ~ValidPercentage(data.bonus_percentage)
       THEN Rejected("create_client_override")
       ELSE /\ HasFreshId(referral_client_overrides)
            /\ admin_ops' = admin_ops + 1
            /\ ensure_tier_tables
            /\ IF ~UserExists(data.user_id)
               THEN /\ resp' = Reply("create_client_override", 404, data.user_id,
                                     Failure("User not found"))
                    /\ UNCHANGED referral_client_overrides
               ELSE IF \E o \in referral_client_overrides : o.user_id = data.user_id
               THEN /\ referral_client_overrides' =
                         {ClientUpsert(o, data) : o \in referral_client_overrides}
                    /\ resp' = Reply("create_client_override", 200, data.user_id,
                                     Success("Client override updated"))
               ELSE /\ referral_client_overrides' = referral_client_overrides \cup
                         {ClientRow(FreshId(referral_client_overrides), data)}
                    /\ resp' = Reply("create_client_override", 200, data.user_id,
                                     Success("Client override created"))
            /\ UNCHANGED <<users, referral_global_overrides, now>>
    /\ calls' = Witnessed(calls)

\* the SET list built from the fields of data that are not None
ClientUpdate(o, data) ==
    [o EXCEPT
       !.bonus_percentage = IF data.bonus_percentage # NULL
                            THEN data.bonus_percentage ELSE @,
       !.expires_at = IF data.expires_at # NULL THEN data.expires_at ELSE @,
       !.reason = IF data.reason # NoName THEN data.reason ELSE @,
       !.is_active = IF data.is_active # NoName
                     THEN data.is_active = "true" ELSE @]

HasUpdates(data) ==
    \/ data.bonus_percentage # NULL
    \/ data.expires_at # NULL
    \/ data.reason # NoName
    \/ data.is_active # NoName

update_client_override(user_id, data) ==
    /\ UNCHANGED books
    /\ IF data.bonus_percentage # NULL /\ ~ValidPercentage(data.bonus_percentage)
       THEN Rejected("update_client_override")
       ELSE /\ admin_ops' = admin_ops + 1
            /\ IF ~HasUpdates(data)
               THEN /\ resp' = Reply("update_client_override", 200, user_id,
                                     Success("Client override updated"))
                    /\ UNCHANGED <<users, tables_created, referral_tiers,
                                   referral_global_overrides,
                                   referral_client_overrides, now>>
               ELSE \/ NoTables("update_client_override")
                    \/ /\ tables_created
                       /\ referral_client_overrides' =
                            {IF o.user_id = user_id THEN ClientUpdate(o, data) ELSE o
                             : o \in referral_client_overrides}
                       /\ resp' = Reply("update_client_override", 200, user_id,
                                        Success("Client override updated"))
                       /\ UNCHANGED <<users, tables_created, referral_tiers,
                                      referral_global_overrides, now>>
    /\ calls' = Witnessed(calls)

delete_client_override(user_id) ==
    /\ UNCHANGED books
    /\ admin_ops' = admin_ops + 1
    /\ \/ NoTables("delete_client_override")
       \/ /\ tables_created
          /\ referral_client_overrides' =
               {o \in referral_client_overrides : o.user_id # user_id}
          /\ resp' = Reply("delete_client_override", 200, user_id,
                           Success("Client override deleted"))
          /\ UNCHANGED <<users, tables_created, referral_tiers,
                         referral_global_overrides, now>>
    /\ calls' = Witnessed(calls)

----------------------------------------------------------------------------
(* create_user (auth_service) *)

\* generate_referral_code, retried until no user has it: the code of the
\* user with user_id i is written i
ReferralCodeOf(user_id) == user_id

\* the lookup without the is_active filter
Referrers_AnyStatus(code) ==
    {i \in DOMAIN users : ReferralCodeOf(i) = code}

\* find_one({"referral_code": code, "is_active": True})
Referrers(code) ==
    {i \in DOMAIN users : ReferralCodeOf(i) = code /\ users[i].is_active}

\* the referrer left out of the document
UserDoc_NoReferrer(username, referrer_user_id) ==
    [username |-> username, referred_by_user_id |-> NULL, is_active |-> TRUE]

\* create_user_doc(..., referred_by_user_id=referrer_user_id)
UserDoc(username, referrer_user_id) ==
    [username |-> username, referred_by_user_id |-> referrer_user_id,
     is_active |-> TRUE]

create_user(username, referred_by_code) ==
    /\ UNCHANGED <<books, calls>>
    /\ IF \E i \in DOMAIN users : users[i].username = username
       THEN /\ resp' = Reply("create_user", 400, GhostUser,
                             Failure("Username already exists"))
            /\ UNCHANGED users
       ELSE IF referred_by_code # NULL /\ Referrers(referred_by_code) = {}
       THEN /\ resp' = Reply("create_user", 400, GhostUser,
                             Failure("Invalid referral code"))
            /\ UNCHANGED users
       ELSE /\ \E referrer_user_id \in
                    IF referred_by_code = NULL THEN {NULL}
                    ELSE Referrers(referred_by_code) :
                 users' = Append(users, UserDoc(username, referrer_user_id))
            /\ resp' = Reply("create_user", 200, Len(users) + 1,
                             Success("created"))
    /\ UNCHANGED <<tables_created, referral_tiers, referral_global_overrides,
                   referral_client_overrides, now, admin_ops>>

----------------------------------------------------------------------------
(* The clock *)

NoResp == Reply("none", 0, GhostUser, NoRow)

\* time passes; the last response has been delivered
Tick ==
    /\ UNCHANGED <<books, calls>>
    /\ now < MaxTime
    /\ now' = now + 1
    /\ resp' = NoResp
    /\ UNCHANGED <<users, tables_created, referral_tiers,
                   referral_global_overrides, referral_client_overrides,
                   admin_ops>>

----------------------------------------------------------------------------
(* Inputs *)

Percentages == {25, 40}

\* a bonus_percentage above the le=100 of the request models
TooHigh == 101

\* update_tier requests: a Starter band that ends at 0, Starter switched
\* off, a Silver band from 1 on, the name Silver given to Starter, and a
\* tier_id no row has
TierUpdateInputs ==
    { <<"STARTER", [tier_name |-> "Starter", min_referrals |-> 0,
                    max_referrals |-> 0, bonus_percentage |-> 12,
                    is_active |-> TRUE]>>,
      <<"STARTER", [tier_name |-> "Starter", min_referrals |-> 0,
                    max_referrals |-> 6, bonus_percentage |-> 10,
                    is_active |-> FALSE]>>,
      <<"SILVER",  [tier_name |-> "Silver", min_referrals |-> 1,
                    max_referrals |-> NULL, bonus_percentage |-> 15,
                    is_active |-> TRUE]>>,
      <<"STARTER", [tier_name |-> "Silver", min_referrals |-> 0,
                    max_referrals |-> 6, bonus_percentage |-> 10,
                    is_active |-> TRUE]>>,
      <<GhostTier, [tier_name |-> "Bronze", min_referrals |-> 0,
                    max_referrals |-> 6, bonus_percentage |-> 12,
                    is_active |-> TRUE]>>,
      <<"STARTER", [tier_name |-> "Starter", min_referrals |-> 0,
                    max_referrals |-> 6, bonus_percentage |-> TooHigh,
                    is_active |-> TRUE]>> }

CampaignName(pct) == IF pct = 25 THEN "Spring" ELSE "Mega"

\* campaigns from 0 to 1 and, with end_date < start_date, from 2 to 1
StartDates == {0, 2}
EndDate == 1

CampaignInputs ==
    { [name |-> CampaignName(p), bonus_percentage |-> p,
       start_date |-> s, end_date |-> EndDate, is_active |-> a]
      : p \in Percentages, s \in StartDates, a \in BOOLEAN }

CampaignUpdateInputs ==
    { d \in CampaignInputs : d.bonus_percentage = 25 /\ d.start_date = 0 }

InvalidCampaign ==
    [name |-> "Mega", bonus_percentage |-> TooHigh, start_date |-> 0,
     end_date |-> EndDate, is_active |-> TRUE]

\* a second campaign of the percentage of "Spring", under another name
TiedCampaign ==
    [name |-> "Summer", bonus_percentage |-> 25, start_date |-> 0,
     end_date |-> EndDate, is_active |-> TRUE]

InvalidClientCreate ==
    [user_id |-> 1, bonus_percentage |-> TooHigh, expires_at |-> NULL,
     reason |-> "vip"]

InvalidClientUpdate ==
    [bonus_percentage |-> TooHigh, expires_at |-> NULL, reason |-> NoName,
     is_active |-> NoName]

ClientCreateInputs(user_ids) ==
    { [user_id |-> u, bonus_percentage |-> 40, expires_at |-> NULL,
       reason |-> "vip"] : u \in user_ids }
    \cup
    { [user_id |-> u, bonus_percentage |-> 5, expires_at |-> 1,
       reason |-> "trial"] : u \in user_ids }

ClientUpdateInputs ==
    { [bonus_percentage |-> NULL, expires_at |-> NULL, reason |-> NoName,
       is_active |-> "false"],
      [bonus_percentage |-> 25, expires_at |-> 2, reason |-> NoName,
       is_active |-> NoName],
      [bonus_percentage |-> NULL, expires_at |-> NULL, reason |-> NoName,
       is_active |-> NoName] }

UserIdInputs == DOMAIN users \cup {GhostUser}

OverrideIdInputs == (1..MaxOverrideIds) \cup {GhostOverride}

----------------------------------------------------------------------------
(* The service *)

FirstUser == [username |-> 1, referred_by_user_id |-> NULL, is_active |-> TRUE]

Init ==
    /\ users = <<FirstUser>>
    /\ tables_created = FALSE
    /\ referral_tiers = {}
    /\ referral_global_overrides = {}
    /\ referral_client_overrides = {}
    /\ now = 0
    /\ admin_ops = 0
    /\ resp = NoResp
    /\ books = NoBooks
    /\ calls = NoCalls

\* signups with the first user's referral code or with a code nobody has,
\* under a new or a taken username
Signup ==
    /\ Len(users) < MaxUsers
    /\ \E username \in {1, Len(users) + 1},
          code \in {ReferralCodeOf(1), ReferralCodeOf(GhostUser)} :
         create_user(username, code)

\* an administrator sends at most MaxAdminOps write requests
AdminRequest ==
    /\ admin_ops < MaxAdminOps
    /\ \/ \E td \in TierUpdateInputs : update_tier(td[1], td[2])
       \/ \E d \in CampaignInputs \cup {InvalidCampaign, TiedCampaign} :
            create_global_override(d)
       \/ \E i \in OverrideIdInputs, d \in CampaignUpdateInputs :
            update_global_override(i, d)
       \/ update_global_override(1, InvalidCampaign)
       \/ \E i \in OverrideIdInputs : delete_global_override(i)
       \/ \E d \in ClientCreateInputs(UserIdInputs) \cup {InvalidClientCreate} :
            create_client_override(d)
       \/ \E u \in UserIdInputs, d \in ClientUpdateInputs :
            update_client_override(u, d)
       \/ update_client_override(1, InvalidClientUpdate)
       \/ \E u \in UserIdInputs : delete_client_override(u)

Resolve ==
    \/ \E u \in UserIdInputs : get_effective_bonus(u)
    \/ \E u \in DOMAIN users : get_my_tier(u)

Next ==
    \/ Resolve
    \/ AdminRequest
    \/ Signup
    \/ Tick

Spec == Init /\ [][Next]_vars

----------------------------------------------------------------------------
(* The tier table over the whole range of referral counts: one referrer    *)
(* (user 1) whose code every other user signed up with                     *)

Referred(i) == [username |-> i, referred_by_user_id |-> IF i = 1 THEN NULL ELSE 1,
                is_active |-> TRUE]

InitTiers ==
    /\ \E n \in 0..MaxCount : users = [i \in 1..(n + 1) |-> Referred(i)]
    /\ tables_created = FALSE
    /\ referral_tiers = {}
    /\ referral_global_overrides = {}
    /\ referral_client_overrides = {}
    /\ now = 0
    /\ admin_ops = 0
    /\ resp = NoResp
    /\ books = NoBooks
    /\ calls = NoCalls

BandInputs ==
    { [tier_name |-> "Silver", min_referrals |-> 5, max_referrals |-> 14,
       bonus_percentage |-> 15, is_active |-> TRUE],
      [tier_name |-> "Starter", min_referrals |-> 0, max_referrals |-> 3,
       bonus_percentage |-> 12, is_active |-> TRUE],
      [tier_name |-> "Gold", min_referrals |-> 15, max_referrals |-> 29,
       bonus_percentage |-> 20, is_active |-> FALSE],
      [tier_name |-> "Starter", min_referrals |-> 0, max_referrals |-> 6,
       bonus_percentage |-> 12, is_active |-> TRUE],
      [tier_name |-> "Starter", min_referrals |-> 0, max_referrals |-> 6,
       bonus_percentage |-> 10, is_active |-> FALSE] }

BandIdInputs == {"STARTER", "SILVER", "GOLD"}

ResolveReferrer == get_effective_bonus(1) \/ get_my_tier(1)

UpdateBand ==
    /\ admin_ops < MaxAdminOps
    /\ \E t \in BandIdInputs, d \in BandInputs : update_tier(t, d)

ReferredSignup ==
    /\ Len(users) < MaxCount + 1
    /\ create_user(Len(users) + 1, ReferralCodeOf(1))

NextTiers ==
    \/ ResolveReferrer
    \/ UpdateBand
    \/ ReferredSignup

SpecTiers == InitTiers /\ [][NextTiers]_vars

----------------------------------------------------------------------------
(* An administrator's session on a referrer with 10 referrals: a 40%       *)
(* client override is created and deleted, then a 25% campaign that is     *)
(* running is created and switched off; bonuses are resolved in between.   *)
(* admin_ops tells how far the session is.                                 *)

InitSession ==
    /\ users = [i \in 1..(10 + 1) |-> Referred(i)]
    /\ tables_created = FALSE
    /\ referral_tiers = {}
    /\ referral_global_overrides = {}
    /\ referral_client_overrides = {}
    /\ now = 0
    /\ admin_ops = 0
    /\ resp = NoResp
    /\ books = NoBooks
    /\ calls = NoCalls

SessionOverride ==
    [user_id |-> 1, bonus_percentage |-> 40, expires_at |-> NULL,
     reason |-> "vip"]

\* a 25% campaign whose window holds the present instant
SessionCampaigns ==
    { [name |-> "Spring", bonus_percentage |-> 25, start_date |-> s,
       end_date |-> e, is_active |-> TRUE]
      : s \in 0..now, e \in now..MaxTime }

\* the PUT body that switches the stored campaign g off
SwitchedOff(g) ==
    [name |-> g.name, bonus_percentage |-> g.bonus_percentage,
     start_date |-> g.start_date, end_date |-> g.end_date,
     is_active |-> FALSE]

AddOverride == admin_ops = 0 /\ create_client_override(SessionOverride)

RemoveOverride == admin_ops = 1 /\ delete_client_override(1)

AddCampaign ==
    admin_ops = 2 /\ \E d \in SessionCampaigns : create_global_override(d)

DeactivateCampaign ==
    /\ admin_ops = 3
    /\ \E g \in referral_global_overrides :
         update_global_override(g.override_id, SwitchedOff(g))

SessionResolve ==
    \/ \E u \in {1, 2, GhostUser} : get_effective_bonus(u)
    \/ \E u \in {1, 2} : get_my_tier(u)

\* time passes, but not past the end of the campaign
SessionTick ==
    /\ \A g \in referral_global_overrides : now < g.end_date
    /\ Tick

NextSession ==
    \/ SessionResolve
    \/ AddOverride
    \/ RemoveOverride
    \/ AddCampaign
    \/ DeactivateCampaign
    \/ SessionTick

SpecSession == InitSession /\ [][NextSession]_vars

----------------------------------------------------------------------------
(* Signups: an active and a deactivated account exist, and up to
   MaxSignups accounts are created with every kind of referral code *)

DormantUser == [username |-> 2, referred_by_user_id |-> NULL, is_active |-> FALSE]

InitSignup ==
    /\ users = <<FirstUser, DormantUser>>
    /\ tables_created = FALSE
    /\ referral_tiers = {}
    /\ referral_global_overrides = {}
    /\ referral_client_overrides = {}
    /\ now = 0
    /\ admin_ops = 0
    /\ resp = NoResp
    /\ books = NoBooks
    /\ calls = NoCalls

\* a taken and a free username
UsernameInputs == {1, Len(users) + 1}

\* no code, the codes of the first three accounts and a code of nobody
CodeInputs == {NULL, ReferralCodeOf(1), ReferralCodeOf(2), ReferralCodeOf(3),
               ReferralCodeOf(GhostUser)}

AnySignup ==
    /\ Len(users) < MaxSignups + 2
    /\ \E username \in UsernameInputs, code \in CodeInputs :
         create_user(username, code)

CountReferrals == \E u \in DOMAIN users : get_effective_bonus(u)

NextSignup ==
    \/ AnySignup
    \/ CountReferrals

SpecSignup == InitSignup /\ [][NextSignup]_vars

----------------------------------------------------------------------------
(* get_platform_trends (analytics_routes): amounts are written in
   thousandths, so that 10050 is 10.05; a document's approved_at or
   created_at is written as the number of hours it lies before the
   request *)

\* the hour of the client's day at which the request is made
HourOfDay == 12

\* the number of the client's day, today being 0, that holds the instant
\* `ago` hours before the request
DayOf(ago) ==
    IF ago <= HourOfDay THEN 0 ELSE 1 + ((ago - HourOfDay - 1) \div 24)

RECURSIVE Total(_, _)
\* {"$group": {"_id": None, "total": {"$sum": ...}}} with f the summed
\* expression; 0 when no document matches
Total(f, docs) ==
    IF docs = {} THEN 0
    ELSE LET x == CHOOSE x \in docs : TRUE
         IN f[x] + Total(f, docs \ {x})

\* round(x, 2): the nearest hundredth, a tie going to the even one
Round2(m) ==
    LET q == m \div 10
        r == m % 10
    IN IF r < 5 THEN 10 * q
       ELSE IF r > 5 THEN 10 * (q + 1)
       ELSE IF q % 2 = 0 THEN 10 * q ELSE 10 * (q + 1)

approved_statuses == {"approved", "APPROVED_EXECUTED", "completed", "paid"}

\* the $match of the deposits pipeline for one day
DepositOrders(day) ==
    {o \in books.orders :
       /\ o.order_type \in {"game_load", "deposit", "wallet_load"}
       /\ o.status \in approved_statuses
       /\ DayOf(o.approved_at) = day}

\* the $match of the withdrawals pipeline for one day
WithdrawalOrders(day) ==
    {o \in books.orders :
       /\ o.order_type \in {"withdrawal_game", "withdrawal", "wallet_redeem"}
       /\ o.status \in approved_statuses
       /\ DayOf(o.approved_at) = day}

\* the $match of the bonus issued and the active clients pipelines
LoadOrders(day) ==
    {o \in books.orders :
       /\ o.order_type \in {"game_load", "deposit"}
       /\ o.status \in approved_statuses
       /\ DayOf(o.approved_at) = day}

\* the $match of the bonus voided pipeline
VoidedOrders(day) ==
    {o \in books.orders :
       /\ o.status \in approved_statuses
       /\ DayOf(o.approved_at) = day
       /\ o.void_amount > 0}

\* the $match of the referral earnings pipeline
PaidEarnings(day) ==
    {e \in books.referral_earnings :
       /\ e.status \in {"paid", "credited", "completed"}
       /\ DayOf(e.created_at) = day}

\* {"$ifNull": [a, b]}
IfNull(a, b) == IF a = NULL THEN b ELSE a

Max0(x) == IF x > 0 THEN x ELSE 0

\* the sums of one day before they are rounded
DaySums(day) ==
    LET deposits == Total([o \in DepositOrders(day) |-> o.amount],
                          DepositOrders(day))
        withdrawals_paid ==
            Total([o \in WithdrawalOrders(day) |->
                     IfNull(o.payout_amount, o.amount)],
                  WithdrawalOrders(day))
        bonus_issued ==
            Total([o \in LoadOrders(day) |->
                     Max0(IfNull(o.total_amount, o.amount) - o.amount)],
                  LoadOrders(day))
        bonus_voided == Total([o \in VoidedOrders(day) |-> o.void_amount],
                              VoidedOrders(day))
        referral_earnings == Total([e \in PaidEarnings(day) |-> e.amount],
                                   PaidEarnings(day))
    IN [deposits |-> deposits,
        withdrawals_paid |-> withdrawals_paid,
        bonus_issued |-> bonus_issued,
        bonus_voided |-> bonus_voided,
        net_profit |-> deposits - withdrawals_paid - referral_earnings,
        referral_earnings_paid |-> referral_earnings]

\* the entry of daily_data for one day
DayEntry(day) ==
    LET sums == DaySums(day)
    IN [date |-> day,
        deposits |-> Round2(sums.deposits),
        withdrawals_paid |-> Round2(sums.withdrawals_paid),
        bonus_issued |-> Round2(sums.bonus_issued),
        bonus_voided |-> Round2(sums.bonus_voided),
        net_profit |-> Round2(sums.net_profit),
        referral_earnings_paid |-> Round2(sums.referral_earnings_paid),
        active_clients |-> Cardinality({o.user_id : o \in LoadOrders(day)})]

\* the totals of the period, summed before rounding and rounded at the end
PeriodTotals(days) ==
    LET D == 0..(days - 1)
    IN [deposits |-> Round2(Total([d \in D |-> DaySums(d).deposits], D)),
        withdrawals_paid |->
            Round2(Total([d \in D |-> DaySums(d).withdrawals_paid], D)),
        bonus_issued |->
            Round2(Total([d \in D |-> DaySums(d).bonus_issued], D)),
        bonus_voided |->
            Round2(Total([d \in D |-> DaySums(d).bonus_voided], D)),
        net_profit |-> Round2(Total([d \in D |-> DaySums(d).net_profit], D)),
        referral_earnings_paid |->
            Round2(Total([d \in D |-> DaySums(d).referral_earnings_paid], D))]

get_platform_trends(days) ==
    /\ resp' = Reply("get_platform_trends", 200, GhostUser,
                     [days |-> days,
                      data |-> [d \in 0..(days - 1) |-> DayEntry(d)],
                      totals |-> PeriodTotals(days)])
    /\ UNCHANGED <<users, tables_created, referral_tiers,
                   referral_global_overrides, referral_client_overrides,
                   now, admin_ops, books, calls>>

Order(id, order_type, status, approved_at, amount, payout_amount, total_amount, void_amount, user_id) ==
    [order_id |-> id, order_type |-> order_type, status |-> status,
     approved_at |-> approved_at, amount |-> amount,
     payout_amount |-> payout_amount, total_amount |-> total_amount,
     void_amount |-> void_amount, user_id |-> user_id]

\* a load of 10.05 credited as 11.05, a withdrawal paid out as 4.004 with
\* 0.996 voided, a deposit still pending, a redemption and a load of 1.006
\* on the day before
OrderDocs ==
    { Order(1, "game_load", "approved", 3, 10050, NULL, 11050, 0, 1),
      Order(2, "withdrawal", "paid", 5, 5000, 4004, NULL, 996, 1),
      Order(3, "deposit", "pending", 2, 7000, NULL, NULL, 0, 2),
      Order(4, "wallet_redeem", "completed", 20, 2000, NULL, NULL, 0, 2),
      Order(5, "game_load", "APPROVED_EXECUTED", 30, 1006, NULL, NULL, 0, 2) }

\* earnings of 1.004 paid today, 3.00 not yet paid, 0.004 credited the
\* day before
EarningDocs ==
    { [earning_id |-> 1, status |-> "paid", created_at |-> 1, amount |-> 1004],
      [earning_id |-> 2, status |-> "pending", created_at |-> 4, amount |-> 3000],
      [earning_id |-> 3, status |-> "credited", created_at |-> 25, amount |-> 4] }

MaxDays == 2

InitTrends ==
    /\ users = <<FirstUser>>
    /\ tables_created = FALSE
    /\ referral_tiers = {}
    /\ referral_global_overrides = {}
    /\ referral_client_overrides = {}
    /\ now = 0
    /\ admin_ops = 0
    /\ resp = NoResp
    /\ \E orders \in SUBSET OrderDocs, earnings \in SUBSET EarningDocs :
         books = [orders |-> orders, referral_earnings |-> earnings,
                  accounts |-> {}]
    /\ calls = NoCalls

NextTrends == \E days \in 1..MaxDays : get_platform_trends(days)

SpecTrends == InitTrends /\ [][NextTrends]_vars

----------------------------------------------------------------------------
(* get_risk_snapshot (analytics_routes) *)

\* {"$match": {"role": "user", "is_active": True}}
ClientAccounts ==
    {a \in books.accounts : a.role = "user" /\ a.is_active = TRUE}

\* cash_balance, else real_balance, else 0
CashOf(a) == IfNull(a.cash_balance, IfNull(a.real_balance, 0))

\* the $group of the balances pipeline
Balances ==
    [total_cash |-> Total([a \in ClientAccounts |-> CashOf(a)], ClientAccounts),
     total_bonus |-> Total([a \in ClientAccounts |-> IfNull(a.bonus_balance, 0)],
                           ClientAccounts),
     total_play_credits |->
         Total([a \in ClientAccounts |-> IfNull(a.play_credits, 0)],
               ClientAccounts),
     total_combined |->
         Total([a \in ClientAccounts |->
                  CashOf(a) + IfNull(a.bonus_balance, 0)
                    + IfNull(a.play_credits, 0)],
               ClientAccounts)]

\* settings.get('max_cashout_multiplier', 3) if settings else 3, with no
\* settings document stored
max_multiplier == 3

\* approved loads and deposits of the last 24 hours
Deposits24h ==
    {o \in books.orders :
       /\ o.order_type \in {"game_load", "deposit"}
       /\ o.status \in approved_statuses
       /\ o.approved_at <= 24}

RECURSIVE MaxOf(_, _)
\* {"$max": ...} over the documents; 0 stands for risk_max_24h or 0
MaxOf(f, docs) ==
    IF docs = {} THEN 0
    ELSE LET x == CHOOSE x \in docs : TRUE
             rest == MaxOf(f, docs \ {x})
         IN IF f[x] > rest THEN f[x] ELSE rest

pending_statuses ==
    {"pending_review", "awaiting_payment_proof", "pending", "initiated",
     "PENDING_REVIEW"}

\* the $match of the pending withdrawals pipeline
PendingWithdrawals ==
    {o \in books.orders :
       /\ o.order_type \in {"withdrawal", "withdrawal_game", "wallet_redeem"}
       /\ o.status \in pending_statuses}

\* the strict thresholds taken as inclusive
Pressure_Inclusive(pending_amount, total_balance) ==
    IF total_balance <= 0 THEN "low"
    ELSE IF 100 * pending_amount <= 20 * total_balance THEN "low"
    ELSE IF 100 * pending_amount <= 50 * total_balance THEN "medium"
    ELSE "high"

\* pending_ratio = pending_amount / total_balance * 100 if total_balance > 0
\* else 0, then < 20 low, < 50 medium, else high
Pressure(pending_amount, total_balance) ==
    IF total_balance <= 0 THEN "low"
    ELSE IF 100 * pending_amount < 20 * total_balance THEN "low"
    ELSE IF 100 * pending_amount < 50 * total_balance THEN "medium"
    ELSE "high"

\* n / d rounded to the nearest whole number, a tie going to the even one
RoundDiv(n, d) ==
    LET q == n \div d
        r == n % d
    IN IF 2 * r < d THEN q
       ELSE IF 2 * r > d THEN q + 1
       ELSE IF q % 2 = 0 THEN q ELSE q + 1

\* round(pending_ratio, 1), written in tenths of a percent
PressureRatio(pending_amount, total_balance) ==
    IF total_balance <= 0 THEN 0
    ELSE RoundDiv(1000 * pending_amount, total_balance)

Min(a, b) == IF a < b THEN a ELSE b

get_risk_snapshot ==
    LET balances == Balances
        risk_max_24h ==
            MaxOf([o \in Deposits24h |-> o.amount * max_multiplier], Deposits24h)
        pending_amount ==
            Total([o \in PendingWithdrawals |-> IfNull(o.amount, 0)],
                  PendingWithdrawals)
        total_balance == balances.total_combined
    IN /\ resp' = Reply("get_risk_snapshot", 200, GhostUser,
              [total_client_balance |->
                   [cash |-> Round2(balances.total_cash),
                    bonus |-> Round2(balances.total_bonus),
                    play_credits |-> Round2(balances.total_play_credits),
                    combined |-> Round2(total_balance)],
               risk_max_24h |-> [amount |-> Round2(risk_max_24h),
                                 max_multiplier_used |-> max_multiplier],
               probable_max_cashout |->
                   [amount |-> Round2(Min(total_balance, risk_max_24h)),
                    max_multiplier_used |-> max_multiplier],
               cashout_pressure |->
                   [indicator |-> Pressure(pending_amount, total_balance),
                    pending_count |-> Cardinality(PendingWithdrawals),
                    pending_amount |-> Round2(pending_amount),
                    pressure_ratio_percent |->
                        PressureRatio(pending_amount, total_balance)]])
       /\ UNCHANGED <<users, tables_created, referral_tiers,
                      referral_global_overrides, referral_client_overrides,
                      now, admin_ops, books, calls>>

Account(id, role, is_active, cash_balance, real_balance, bonus_balance, play_credits) ==
    [user_id |-> id, role |-> role, is_active |-> is_active,
     cash_balance |-> cash_balance, real_balance |-> real_balance,
     bonus_balance |-> bonus_balance, play_credits |-> play_credits]

\* a client with 5.65 in cash; one with 4.35 under real_balance and 1.00
\* of bonus; an administrator; a deactivated client
AccountDocs ==
    { Account(1, "user", TRUE, 5650, NULL, 0, 0),
      Account(2, "user", TRUE, NULL, 4350, 1000, NULL),
      Account(3, "admin", TRUE, 100000, NULL, 0, 0),
      Account(4, "user", FALSE, 50000, NULL, 0, 0) }

\* pending withdrawals of 1.13, 1.07 and 1.695, one already approved, a
\* load of 2.00 three hours ago and a deposit of 9.00 thirty hours ago
RiskOrderDocs ==
    { Order(11, "withdrawal", "pending_review", 1, 1130, NULL, NULL, 0, 1),
      Order(12, "withdrawal_game", "pending", 2, 1070, NULL, NULL, 0, 2),
      Order(13, "withdrawal", "initiated", 2, 1695, NULL, NULL, 0, 1),
      Order(14, "wallet_redeem", "approved", 4, 8000, NULL, NULL, 0, 2),
      Order(15, "game_load", "approved", 3, 2000, NULL, NULL, 0, 1),
      Order(16, "deposit", "completed", 30, 9000, NULL, NULL, 0, 2) }

InitRisk ==
    /\ users = <<FirstUser>>
    /\ tables_created = FALSE
    /\ referral_tiers = {}
    /\ referral_global_overrides = {}
    /\ referral_client_overrides = {}
    /\ now = 0
    /\ admin_ops = 0
    /\ resp = NoResp
    /\ \E orders \in SUBSET RiskOrderDocs, accounts \in SUBSET AccountDocs :
         books = [orders |-> orders, referral_earnings |-> {},
                  accounts |-> accounts]
    /\ calls = NoCalls

NextRisk == get_risk_snapshot

SpecRisk == InitRisk /\ [][NextRisk]_vars

----------------------------------------------------------------------------
(* get_global_overrides                                                    *)

\* ORDER BY start_date DESC: the orders the database may deliver (rows
\* with equal start_date in either order)
RECURSIVE OrderByStartDateDesc(_)
OrderByStartDateDesc(rows) ==
    IF rows = {} THEN {<< >>}
    ELSE LET firsts == {r \in rows :
                          \A q \in rows : q.start_date <= r.start_date}
         IN UNION {{<<r>> \o rest : rest \in OrderByStartDateDesc(rows \ {r})}
                   : r \in firsts}

\* o['is_active'] and o['start_date'] <= now <= o['end_date']
CurrentlyActive(o, at) == o.is_active /\ o.start_date <= at /\ at <= o.end_date

\* the for loop over overrides from position i: the first row that is
\* currently active, or None
RECURSIVE FirstActive(_, _, _)
FirstActive(overrides, i, at) ==
    IF i > Len(overrides) THEN NoRow
    ELSE IF CurrentlyActive(overrides[i], at) THEN overrides[i]
    ELSE FirstActive(overrides, i + 1, at)

get_global_overrides ==
    /\ UNCHANGED <<books, calls>>
    /\ ensure_tier_tables
    /\ \E overrides \in OrderByStartDateDesc(referral_global_overrides) :
         resp' = Reply("get_global_overrides", 200, GhostUser,
                       [success |-> TRUE, overrides |-> overrides,
                        active_override |-> FirstActive(overrides, 1, now)])
    /\ UNCHANGED <<users, referral_global_overrides,
                   referral_client_overrides, now, admin_ops>>

\* a campaign of the lower percentage that starts at 1, after the others
LateCampaign ==
    [name |-> "Summer", bonus_percentage |-> 25, start_date |-> 1,
     end_date |-> EndDate, is_active |-> TRUE]

CampaignWrite ==
    /\ admin_ops < MaxAdminOps
    /\ \/ \E d \in CampaignInputs \cup {LateCampaign} : create_global_override(d)
       \/ \E i \in OverrideIdInputs, d \in CampaignUpdateInputs :
            update_global_override(i, d)
       \/ \E i \in OverrideIdInputs : delete_global_override(i)

ResolveFirst == \E u \in DOMAIN users : get_effective_bonus(u)

NextCampaigns ==
    \/ CampaignWrite
    \/ get_global_overrides
    \/ ResolveFirst
    \/ Tick

SpecCampaigns == Init /\ [][NextCampaigns]_vars

----------------------------------------------------------------------------
(* get_effective_bonus statement by statement, with the override writes of *)
(* other requests between its statements                                   *)

MaxCalls == 1

\* a request in progress: the statement it is at, what it has read, the
\* stores that existed since it started and the number of writes since
BonusCall(user_id, at, stores) ==
    [op |-> "get_effective_bonus", pc |-> "count", user_id |-> user_id,
     at |-> at, count |-> 0, seen |-> stores, writes |-> 0, body |-> NoRow]

\* the request returns body
Returned(i, body) ==
    /\ calls' = [calls EXCEPT ![i].pc = "done", ![i].body = body]
    /\ resp' = Reply("get_effective_bonus", 200, calls[i].user_id, body)

\* await ensure_tier_tables(); now = datetime.now(timezone.utc)
begin_effective_bonus(user_id) ==
    /\ Len(calls) < MaxCalls
    /\ ensure_tier_tables
    /\ UNCHANGED <<users, referral_global_overrides,
                   referral_client_overrides, now, admin_ops, resp, books>>
    /\ calls' = Append(calls, BonusCall(user_id, now, {store, store'}))

\* SELECT COUNT(*) as count FROM users WHERE referred_by_user_id = $1
read_referral_count(i) ==
    /\ calls[i].pc = "count"
    /\ calls' = [calls EXCEPT ![i].pc = "override",
                              ![i].count = ReferralCount(calls[i].user_id)]
    /\ UNCHANGED <<users, tables_created, referral_tiers,
                   referral_global_overrides, referral_client_overrides,
                   now, admin_ops, resp, books>>

\* the request that never looks for an individual override
read_client_override_Skipped(i) ==
    /\ calls[i].pc = "override"
    /\ calls' = [calls EXCEPT ![i].pc = "campaign"]
    /\ UNCHANGED <<users, tables_created, referral_tiers,
                   referral_global_overrides, referral_client_overrides,
                   now, admin_ops, resp, books>>

\* 1. the individual override: returned when there is one that has not
\* expired
read_client_override(i) ==
    /\ calls[i].pc = "override"
    /\ LET c == calls[i]
       IN \E co \in FetchOne(ClientOverrideRows(c.user_id)) :
            IF co # NoRow /\ NotExpired(co, c.at)
            THEN Returned(i, EffectiveBonusBody(c.user_id, c.at, c.count,
                                                co, NoRow, NoRow))
            ELSE /\ calls' = [calls EXCEPT ![i].pc = "campaign"]
                 /\ UNCHANGED resp
    /\ UNCHANGED <<users, tables_created, referral_tiers,
                   referral_global_overrides, referral_client_overrides,
                   now, admin_ops, books>>

\* 2. the campaign: returned when one is running
read_global_override(i) ==
    /\ calls[i].pc = "campaign"
    /\ LET c == calls[i]
       IN \E go \in SelectCampaign(c.at) :
            IF go # NoRow
            THEN Returned(i, EffectiveBonusBody(c.user_id, c.at, c.count,
                                                NoRow, go, NoRow))
            ELSE /\ calls' = [calls EXCEPT ![i].pc = "tier"]
                 /\ UNCHANGED resp
    /\ UNCHANGED <<users, tables_created, referral_tiers,
                   referral_global_overrides, referral_client_overrides,
                   now, admin_ops, books>>

\* 3. the tier of the count read, or the default
read_tier(i) ==
    /\ calls[i].pc = "tier"
    /\ LET c == calls[i]
       IN \E tier \in SelectTier(referral_tiers, c.count) :
            Returned(i, EffectiveBonusBody(c.user_id, c.at, c.count,
                                           NoRow, NoRow, tier))
    /\ UNCHANGED <<users, tables_created, referral_tiers,
                   referral_global_overrides, referral_client_overrides,
                   now, admin_ops, books>>

\* campaigns that run at time 0
RunningCampaignInputs ==
    {d \in CampaignInputs : d.start_date = 0 /\ d.is_active}

BeginBonus == \E u \in DOMAIN users : begin_effective_bonus(u)

BonusStep ==
    \E i \in DOMAIN calls :
       \/ read_referral_count(i)
       \/ read_client_override(i)
       \/ read_global_override(i)
       \/ read_tier(i)

\* the six override writes, each a request of its own
OverrideWrite ==
    /\ admin_ops < MaxAdminOps
    /\ \/ \E d \in ClientCreateInputs({1}) : create_client_override(d)
       \/ \E d \in ClientUpdateInputs : update_client_override(1, d)
       \/ delete_client_override(1)
       \/ \E d \in RunningCampaignInputs : create_global_override(d)
       \/ \E i \in 1..MaxOverrideIds, d \in CampaignUpdateInputs :
            update_global_override(i, d)
       \/ \E i \in 1..MaxOverrideIds : delete_global_override(i)

NextReads ==
    \/ BeginBonus
    \/ BonusStep
    \/ OverrideWrite

SpecReads == Init /\ [][NextReads]_vars

----------------------------------------------------------------------------
(* create_client_override statement by statement, for requests that run    *)
(* at the same time                                                        *)

MaxWriters == 3

\* a create_client_override request in progress: the statement it is at,
\* the row its existence check found, its place among the writes, and
\* the status it returned
WriteCall(data, pc, status) ==
    [op |-> "create_client_override", pc |-> pc, user_id |-> data.user_id,
     data |-> data, existing |-> NoRow, wrote |-> 0, status |-> status]

\* the number of requests that have executed their write
Written == Cardinality({i \in DOMAIN calls : calls[i].wrote > 0})

\* await ensure_tier_tables(); SELECT user_id FROM users WHERE user_id = $1
begin_client_override(data) ==
    /\ Len(calls) < MaxWriters
    /\ ensure_tier_tables
    /\ IF ~UserExists(data.user_id)
       THEN /\ calls' = Append(calls, WriteCall(data, "done", 404))
            /\ resp' = Reply("create_client_override", 404, data.user_id,
                             Failure("User not found"))
       ELSE /\ calls' = Append(calls, WriteCall(data, "existing", 0))
            /\ UNCHANGED resp
    /\ UNCHANGED <<users, referral_global_overrides,
                   referral_client_overrides, now, admin_ops, books>>

\* SELECT override_id FROM referral_client_overrides WHERE user_id = $1
read_existing(i) ==
    /\ calls[i].pc = "existing"
    /\ \E existing \in FetchOne({o \in referral_client_overrides :
                                   o.user_id = calls[i].user_id}) :
         calls' = [calls EXCEPT ![i].pc = "write", ![i].existing = existing]
    /\ UNCHANGED <<users, tables_created, referral_tiers,
                   referral_global_overrides, referral_client_overrides,
                   now, admin_ops, resp, books>>

\* if existing: UPDATE ... WHERE user_id = $1; else INSERT, which the
\* UNIQUE(user_id) of the table refuses when a row of the user_id is there:
\* execute raises and the request is answered 500
write_override(i) ==
    /\ calls[i].pc = "write"
    /\ LET c == calls[i]
       IN IF c.existing # NoRow
          THEN /\ referral_client_overrides' =
                    {ClientUpsert(o, c.data) : o \in referral_client_overrides}
               /\ calls' = [calls EXCEPT ![i].pc = "done", ![i].status = 200,
                                         ![i].wrote = Written + 1]
               /\ resp' = Reply("create_client_override", 200, c.user_id,
                                Success("Client override updated"))
          ELSE IF \E o \in referral_client_overrides : o.user_id = c.user_id
          THEN /\ UNCHANGED referral_client_overrides
               /\ calls' = [calls EXCEPT ![i].pc = "done", ![i].status = 500,
                                         ![i].wrote = Written + 1]
               /\ resp' = Reply("create_client_override", 500, c.user_id,
                                Failure("unique violation"))
          ELSE /\ HasFreshId(referral_client_overrides)
               /\ referral_client_overrides' = referral_client_overrides \cup
                    {ClientRow(FreshId(referral_client_overrides), c.data)}
               /\ calls' = [calls EXCEPT ![i].pc = "done", ![i].status = 200,
                                         ![i].wrote = Written + 1]
               /\ resp' = Reply("create_client_override", 200, c.user_id,
                                Success("Client override created"))
    /\ UNCHANGED <<users, tables_created, referral_tiers,
                   referral_global_overrides, now, admin_ops, books>>

BeginWrite ==
    \E d \in ClientCreateInputs(UserIdInputs) : begin_client_override(d)

WriteStep ==
    \E i \in DOMAIN calls :
       \/ read_existing(i)
       \/ write_override(i)

NextWrites ==
    \/ BeginWrite
    \/ WriteStep

SpecWrites == Init /\ [][NextWrites]_vars

----------------------------------------------------------------------------
(* The routes over the compatibility functions of core/database.py as      *)
(* they are: fetch_one returns None, fetch_all an empty list, and execute  *)
(* writes nothing and returns "SUCCESS"                                    *)

\* a fetch_one that answers the query: some row of its result, or None
fetch_one_Answering(rows) == IF rows = {} THEN {NoRow} ELSE rows

\* fetch_one: return None, whatever rows the query selects
fetch_one(rows) == {NoRow}

\* execute: return "SUCCESS"; the table stays as it is, whatever the
\* statement would have made of it
execute(table, written) == table

\* ensure_tier_tables: existing is None, existing['count'] raises, and the
\* except clause passes
shipped_ensure_tier_tables ==
    /\ tables_created' = execute(tables_created, TRUE)
    /\ \E existing \in fetch_one({[count |-> Cardinality(referral_tiers)]}) :
         referral_tiers' =
            IF existing # NoRow /\ existing.count = 0
            THEN execute(referral_tiers, SeededTiers)
            ELSE referral_tiers

shipped_get_effective_bonus(user_id) ==
    /\ UNCHANGED <<books, calls>>
    /\ shipped_ensure_tier_tables
    /\ \E referral_count \in fetch_one({[count |-> ReferralCount(user_id)]}),
          co \in fetch_one(ClientOverrideRows(user_id)),
          go \in fetch_one({g \in ActiveCampaigns(now) :
                              \A q \in ActiveCampaigns(now) :
                                 q.bonus_percentage <= g.bonus_percentage}) :
         LET count == IF referral_count # NoRow THEN referral_count.count ELSE 0
             bands == MatchingTiers(referral_tiers', count)
         IN \E tier \in fetch_one({t \in bands : \A q \in bands :
                                      q.min_referrals <= t.min_referrals}) :
              resp' = Reply("get_effective_bonus", 200, user_id,
                            EffectiveBonusBody(user_id, now, count, co, go, tier))
    /\ UNCHANGED <<users, referral_global_overrides,
                   referral_client_overrides, now, admin_ops>>

shipped_update_tier(tier_id, data) ==
    /\ UNCHANGED <<books, calls>>
    /\ IF ~ValidPercentage(data.bonus_percentage)
       THEN Rejected("update_tier")
       ELSE /\ admin_ops' = admin_ops + 1
            /\ tables_created' = execute(tables_created, TRUE)
            /\ referral_tiers' =
                 execute(referral_tiers,
                         {IF t.tier_id = tier_id THEN TierRow(tier_id, data) ELSE t
                          : t \in referral_tiers})
            /\ resp' = Reply("update_tier", 200, GhostUser,
                             Success("Tier updated"))
            /\ UNCHANGED <<users, referral_global_overrides,
                           referral_client_overrides, now>>

shipped_create_global_override(data) ==
    /\ UNCHANGED <<books, calls>>
    /\ IF ~ValidPercentage(data.bonus_percentage)
       THEN Rejected("create_global_override")
       ELSE /\ admin_ops' = admin_ops + 1
            /\ shipped_ensure_tier_tables
            /\ referral_global_overrides' =
                 execute(referral_global_overrides,
                         referral_global_overrides \cup
                           {GlobalRow(FreshId(referral_global_overrides), data)})
            /\ resp' = Reply("create_global_override", 200, GhostUser,
                             Success("Global override created"))
            /\ UNCHANGED <<users, referral_client_overrides, now>>

shipped_update_global_override(override_id, data) ==
    /\ UNCHANGED <<books, calls>>
    /\ IF ~ValidPercentage(data.bonus_percentage)
       THEN Rejected("update_global_override")
       ELSE /\ admin_ops' = admin_ops + 1
            /\ referral_global_overrides' =
                 execute(referral_global_overrides,
                         {IF g.override_id = override_id
                          THEN GlobalRow(override_id, data) ELSE g
                          : g \in referral_global_overrides})
            /\ resp' = Reply("update_global_override", 200, GhostUser,
                             Success("Global override updated"))
            /\ UNCHANGED <<users, tables_created, referral_tiers,
                           referral_client_overrides, now>>

shipped_delete_global_override(override_id) ==
    /\ UNCHANGED <<books, calls>>
    /\ admin_ops' = admin_ops + 1
    /\ referral_global_overrides' =
         execute(referral_global_overrides,
                 {g \in referral_global_overrides : g.override_id # override_id})
    /\ resp' = Reply("delete_global_override", 200, GhostUser,
                     Success("Global override deleted"))
    /\ UNCHANGED <<users, tables_created, referral_tiers,
                   referral_client_overrides, now>>

\* the user lookup is a fetch_one as well: no user is found
shipped_create_client_override(data) ==
    /\ UNCHANGED <<books, calls>>
    /\ IF ~ValidPercentage(data.bonus_percentage)
       THEN Rejected("create_client_override")
       ELSE /\ admin_ops' = admin_ops + 1
            /\ shipped_ensure_tier_tables
            /\ \E user \in fetch_one({[user_id |-> u] : u \in DOMAIN users \cap {data.user_id}}),
                  existing \in fetch_one({o \in referral_client_overrides :
                                            o.user_id = data.user_id}) :
                 IF user = NoRow
                 THEN /\ resp' = Reply("create_client_override", 404, data.user_id,
                                       Failure("User not found"))
                      /\ UNCHANGED referral_client_overrides
                 ELSE IF existing # NoRow
                 THEN /\ referral_client_overrides' =
                           execute(referral_client_overrides,
                                   {ClientUpsert(o, data) :
                                      o \in referral_client_overrides})
                      /\ resp' = Reply("create_client_override", 200, data.user_id,
                                       Success("Client override updated"))
                 ELSE /\ referral_client_overrides' =
                           execute(referral_client_overrides,
                                   referral_client_overrides \cup
                                     {ClientRow(FreshId(referral_client_overrides),
                                                data)})
                      /\ resp' = Reply("create_client_override", 200, data.user_id,
                                       Success("Client override created"))
            /\ UNCHANGED <<users, referral_global_overrides, now>>

shipped_update_client_override(user_id, data) ==
    /\ UNCHANGED <<books, calls>>
    /\ IF data.bonus_percentage # NULL /\ ~ValidPercentage(data.bonus_percentage)
       THEN Rejected("update_client_override")
       ELSE /\ admin_ops' = admin_ops + 1
            /\ referral_client_overrides' =
                 IF HasUpdates(data)
                 THEN execute(referral_client_overrides,
                              {IF o.user_id = user_id THEN ClientUpdate(o, data)
                               ELSE o : o \in referral_client_overrides})
                 ELSE referral_client_overrides
            /\ resp' = Reply("update_client_override", 200, user_id,
                             Success("Client override updated"))
            /\ UNCHANGED <<users, tables_created, referral_tiers,
                           referral_global_overrides, now>>

shipped_delete_client_override(user_id) ==
    /\ UNCHANGED <<books, calls>>
    /\ admin_ops' = admin_ops + 1
    /\ referral_client_overrides' =
         execute(referral_client_overrides,
                 {o \in referral_client_overrides : o.user_id # user_id})
    /\ resp' = Reply("delete_client_override", 200, user_id,
                     Success("Client override deleted"))
    /\ UNCHANGED <<users, tables_created, referral_tiers,
                   referral_global_overrides, now>>

ShippedAdminRequest ==
    /\ admin_ops < MaxAdminOps
    /\ \/ \E td \in TierUpdateInputs : shipped_update_tier(td[1], td[2])
       \/ \E d \in CampaignInputs \cup {InvalidCampaign} :
            shipped_create_global_override(d)
       \/ \E i \in OverrideIdInputs, d \in CampaignUpdateInputs :
            shipped_update_global_override(i, d)
       \/ \E i \in OverrideIdInputs : shipped_delete_global_override(i)
       \/ \E d \in ClientCreateInputs(UserIdInputs) :
            shipped_create_client_override(d)
       \/ \E u \in UserIdInputs, d \in ClientUpdateInputs :
            shipped_update_client_override(u, d)
       \/ \E u \in UserIdInputs : shipped_delete_client_override(u)

ShippedResolve == \E u \in UserIdInputs : shipped_get_effective_bonus(u)

NextShipped ==
    \/ ShippedResolve
    \/ ShippedAdminRequest
    \/ Signup
    \/ Tick

SpecShipped == Init /\ [][NextShipped]_vars

----------------------------------------------------------------------------
(* Properties *)

Resolved == resp.op = "get_effective_bonus" /\ resp.status = 200

\* the client overrides of user_id that are active and not expired at `at`
ValidOverrides(user_id, at) ==
    {o \in referral_client_overrides :
       /\ o.user_id = user_id
       /\ o.is_active = TRUE
       /\ (o.expires_at = NULL \/ o.expires_at > at)}

\* the campaigns that are active with `at` inside their window
RunningCampaigns(at) ==
    {g \in referral_global_overrides :
       g.is_active = TRUE /\ g.start_date <= at /\ at <= g.end_date}

\* C1: a user with an active, non-expired client override is resolved to
\* that override's percentage with source individual_override, whatever the
\* tier table and the global campaigns are.
C1_IndividualOverrideWins ==
    Resolved =>
      \A o \in ValidOverrides(resp.user_id, now) :
         /\ resp.body.effective_percentage = o.bonus_percentage
         /\ resp.body.source = "individual_override"

\* C1 witness: an override below every tier percentage wins over a running
\* campaign.
C1_Witness ==
    /\ Resolved
    /\ \E o \in ValidOverrides(resp.user_id, now) :
         /\ o.expires_at # NULL
         /\ resp.body.effective_percentage = o.bonus_percentage
         /\ \E g \in RunningCampaigns(now) :
              g.bonus_percentage > o.bonus_percentage

\* C2: a user without an active, non-expired client override is resolved,
\* while a campaign is running, to a running campaign's percentage with
\* source global_campaign, whatever the tier would give.
C2_CampaignBeatsTier ==
    (Resolved /\ ValidOverrides(resp.user_id, now) = {}
              /\ RunningCampaigns(now) # {}) =>
      /\ resp.body.source = "global_campaign"
      /\ \E g \in RunningCampaigns(now) :
           resp.body.effective_percentage = g.bonus_percentage

\* C2 witness: the campaign is applied to a user whose tier gives another
\* percentage and whose own override has expired.
C2_Witness ==
    /\ Resolved
    /\ resp.body.source = "global_campaign"
    /\ \E o \in referral_client_overrides :
         o.user_id = resp.user_id /\ o.is_active /\ o.expires_at = now
    /\ \A t \in referral_tiers :
         t.bonus_percentage # resp.body.effective_percentage

\* the number of users that user_id referred
Referrals(user_id) ==
    Cardinality({i \in 1..Len(users) : users[i].referred_by_user_id = user_id})

\* the active tiers whose band, both ends included, holds count
Bands(count) ==
    {t \in referral_tiers :
       /\ t.is_active = TRUE
       /\ t.min_referrals <= count
       /\ (t.max_referrals = NULL \/ count <= t.max_referrals)}

NoOverrideApplies ==
    ValidOverrides(resp.user_id, now) = {} /\ RunningCampaigns(now) = {}

\* C3: with the five seeded tiers and no override, c referrals resolve to
\* source tier and 10% for c in 0..6, 15% for 7..14, 20% for 15..29, 25% for
\* 30..49 and 30% from 50 on.
C3_DefaultTierTable ==
    (Resolved /\ referral_tiers = SeededTiers /\ NoOverrideApplies) =>
      LET c == Referrals(resp.user_id)
      IN /\ resp.body.referral_count = c
         /\ resp.body.source = "tier"
         /\ resp.body.effective_percentage =
              IF c <= 6 THEN 10
              ELSE IF c <= 14 THEN 15
              ELSE IF c <= 29 THEN 20
              ELSE IF c <= 49 THEN 25
              ELSE 30

\* C3 witness: a referrer in the unbounded Ruby band.
C3_Witness ==
    /\ Resolved
    /\ referral_tiers = SeededTiers
    /\ Referrals(resp.user_id) > 50
    /\ resp.body.effective_percentage = 30

\* C4: the tier step returns, among the active tiers whose inclusive band
\* holds the count, one with the greatest min_referrals; so a count equal to
\* the min_referrals or the max_referrals of the only such tier resolves to
\* that tier.
C4_GreatestMatchingBand ==
    (Resolved /\ NoOverrideApplies /\ Bands(Referrals(resp.user_id)) # {}) =>
      LET M == Bands(Referrals(resp.user_id))
      IN /\ resp.body.source = "tier"
         /\ resp.body.details \in M
         /\ \A q \in M : q.min_referrals <= resp.body.details.min_referrals
         /\ resp.body.effective_percentage = resp.body.details.bonus_percentage
         /\ resp.body.label = resp.body.details.tier_name

\* C4 witness: two overlapping bands hold the count, which is the
\* min_referrals of the higher band, and the higher band is returned.
C4_Witness ==
    /\ Resolved
    /\ resp.body.source = "tier"
    /\ \E q \in Bands(Referrals(resp.user_id)) :
         /\ q.min_referrals < resp.body.details.min_referrals
         /\ q.bonus_percentage # resp.body.details.bonus_percentage
    /\ Referrals(resp.user_id) = resp.body.details.min_referrals

\* C5: when no override applies and no active band holds the count, the
\* request succeeds with 10%, source default and no details.
C5_DefaultFallback ==
    (resp.op = "get_effective_bonus" /\ NoOverrideApplies
       /\ Bands(Referrals(resp.user_id)) = {}) =>
      /\ resp.status = 200
      /\ resp.body.effective_percentage = 10
      /\ resp.body.source = "default"
      /\ resp.body.details = NoRow

\* C5 witness: the default is returned for a count past the end of the only
\* band that starts below it.
C5_Witness ==
    /\ Resolved
    /\ resp.body.source = "default"
    /\ \E t \in referral_tiers :
         /\ t.is_active
         /\ t.min_referrals <= Referrals(resp.user_id)
         /\ t.bonus_percentage # 10

\* the client overrides of user_id whose expires_at is the present instant
ExpiringNow(user_id) ==
    {o \in referral_client_overrides :
       o.user_id = user_id /\ o.is_active = TRUE /\ o.expires_at = now}

TierPercentages ==
    {t.bonus_percentage : t \in {q \in referral_tiers : q.is_active}} \cup {10}

CampaignPercentages == {g.bonus_percentage : g \in RunningCampaigns(now)}

\* C7: a client override whose expires_at equals the resolution time is
\* expired: get_effective_bonus and get_my_tier pass it over for the running
\* campaign or else the tier step; an override is used only while its
\* expires_at is null or later than the resolution time.
C7_ExpiredAtExpiresAt ==
    /\ (Resolved /\ ExpiringNow(resp.user_id) # {}) =>
         /\ resp.body.source # "individual_override"
         /\ RunningCampaigns(now) # {} =>
              /\ resp.body.source = "global_campaign"
              /\ resp.body.effective_percentage \in CampaignPercentages
         /\ RunningCampaigns(now) = {} =>
              /\ resp.body.source \in {"tier", "default"}
              /\ resp.body.effective_percentage \in TierPercentages
    /\ (resp.op = "get_my_tier" /\ ExpiringNow(resp.user_id) # {}) =>
         /\ resp.body.promotion_active = (RunningCampaigns(now) # {})
         /\ RunningCampaigns(now) # {} =>
              resp.body.effective_percentage \in CampaignPercentages
         /\ RunningCampaigns(now) = {} =>
              resp.body.effective_percentage \in TierPercentages
    /\ (Resolved /\ resp.body.source = "individual_override") =>
         \E o \in referral_client_overrides :
            /\ o.user_id = resp.user_id
            /\ o.expires_at = NULL \/ o.expires_at > now
            /\ resp.body.effective_percentage = o.bonus_percentage

\* C7 witness: an override that expires at this instant is passed over for
\* the running campaign.
C7_Witness ==
    /\ Resolved
    /\ \E o \in ExpiringNow(resp.user_id) :
         o.bonus_percentage # resp.body.effective_percentage
    /\ resp.body.source = "global_campaign"

\* C8: for a user without a usable client override the resolver uses a
\* campaign exactly when some campaign has is_active = true and
\* start_date <= now <= end_date, and the campaign it uses is such a one; so
\* a campaign with end_date < start_date is never used, nor one whose
\* end_date has passed.
C8_CampaignWindow ==
    (Resolved /\ ValidOverrides(resp.user_id, now) = {}) =>
      /\ (resp.body.source = "global_campaign") <=>
           (\E g \in referral_global_overrides :
               g.is_active = TRUE /\ g.start_date <= now /\ now <= g.end_date)
      /\ resp.body.source = "global_campaign" =>
           LET g == resp.body.details
           IN /\ g \in referral_global_overrides
              /\ g.is_active = TRUE
              /\ g.start_date <= now /\ now <= g.end_date
              /\ g.start_date <= g.end_date

\* C8 witness: a campaign is used at the instant of its end_date while an
\* active campaign with end_date < start_date is stored.
C8_Witness ==
    /\ Resolved
    /\ resp.body.source = "global_campaign"
    /\ resp.body.details.end_date = now
    /\ resp.body.details.start_date < now
    /\ \E g \in referral_global_overrides :
         g.is_active /\ g.end_date < g.start_date

\* C9: with several campaigns running and no usable client override the
\* greatest bonus_percentage among the running campaigns is returned.
C9_HighestCampaign ==
    (Resolved /\ ValidOverrides(resp.user_id, now) = {}
              /\ RunningCampaigns(now) # {}) =>
      /\ resp.body.effective_percentage \in CampaignPercentages
      /\ \A p \in CampaignPercentages : p <= resp.body.effective_percentage

\* C9 witness: of two running campaigns the one stored first has the higher
\* percentage and is the one returned.
C9_Witness ==
    /\ Resolved
    /\ resp.body.source = "global_campaign"
    /\ \E g \in RunningCampaigns(now) :
         /\ g.bonus_percentage < resp.body.effective_percentage
         /\ g.override_id > resp.body.details.override_id

\* C10: get_my_tier returns the effective_percentage that
\* get_effective_bonus returns for the same user, store and time.
C10_SamePercentage ==
    resp.op = "get_my_tier" =>
      \A r \in EffectiveBonusResults(resp.user_id, now, referral_tiers) :
         r.effective_percentage = resp.body.effective_percentage

\* C6: in the session on the referrer with 10 referrals the resolutions
\* give, in order: 15% from tier Silver before any override; 40% from the
\* individual override once it is created; 25% from the campaign once the
\* override is deleted and the campaign created; 15% from the tier again
\* once the campaign is switched off.
C6_Session ==
    (Resolved /\ resp.user_id = 1) =>
      /\ resp.body.referral_count = 10
      /\ admin_ops = 0 =>
           /\ resp.body.effective_percentage = 15
           /\ resp.body.source = "tier"
           /\ resp.body.label = "Silver"
      /\ admin_ops = 1 =>
           /\ resp.body.effective_percentage = 40
           /\ resp.body.source = "individual_override"
      /\ admin_ops = 3 =>
           /\ resp.body.effective_percentage = 25
           /\ resp.body.source = "global_campaign"
      /\ admin_ops = 4 =>
           /\ resp.body.effective_percentage = 15
           /\ resp.body.source = "tier"

\* C6 witness: the last resolution of the session, with the switched-off
\* campaign still stored and its window still open.
C6_Witness ==
    /\ Resolved /\ resp.user_id = 1
    /\ admin_ops = 4
    /\ resp.body.effective_percentage = 15
    /\ referral_client_overrides = {}
    /\ \E g \in referral_global_overrides :
         /\ ~g.is_active /\ g.bonus_percentage = 25
         /\ g.start_date <= now /\ now <= g.end_date

\* a get_my_tier response
MyTier == resp.op = "get_my_tier" /\ resp.status = 200

\* C11: get_my_tier reports promotion_active, with the name of a running
\* campaign, exactly when a campaign runs at the resolution time and the
\* user has no active, non-expired client override; with such an override
\* the promotion is off, promotion_name is none and effective_percentage
\* is the override's percentage.
C11_PromotionFlag ==
    MyTier =>
      LET valid == ValidOverrides(resp.user_id, now)
          running == RunningCampaigns(now)
      IN /\ resp.body.promotion_active = (running # {} /\ valid = {})
         /\ resp.body.promotion_active =>
              \E g \in running : resp.body.promotion_name = g.name
         /\ valid # {} =>
              /\ resp.body.promotion_name = NoName
              /\ \A o \in valid :
                   resp.body.effective_percentage = o.bonus_percentage

\* C11 witness: a campaign runs, and the user's own override keeps the
\* promotion off.
C11_Witness ==
    /\ MyTier
    /\ ValidOverrides(resp.user_id, now) # {}
    /\ RunningCampaigns(now) # {}
    /\ resp.body.promotion_active = FALSE

\* no two client override records are for the same user
OneRecordPerUser ==
    \A o1, o2 \in referral_client_overrides :
       o1.user_id = o2.user_id => o1 = o2

\* the record of data.user_id is replaced by one of the same override_id
\* that carries the percentage, expiry and reason of data
ReplacedInPlace(data) ==
    \E o \in referral_client_overrides, n \in referral_client_overrides' :
       /\ o.user_id = data.user_id
       /\ n.user_id = data.user_id
       /\ n.override_id = o.override_id
       /\ n.bonus_percentage = data.bonus_percentage
       /\ n.expires_at = data.expires_at
       /\ n.reason = data.reason
       /\ referral_client_overrides' \ {n} = referral_client_overrides \ {o}

\* C12: after any sequence of create, update and delete of client
\* overrides there is at most one record per user_id, and
\* create_client_override for a user who already has a record succeeds and
\* replaces the record's bonus_percentage, expires_at and reason in place.
C12_Upsert ==
    /\ []OneRecordPerUser
    /\ [][resp'.op = "create_client_override" =>
            \A d \in ClientCreateInputs(UserIdInputs) :
               ( /\ \E o \in referral_client_overrides : o.user_id = d.user_id
                 /\ create_client_override(d) )
               => (resp'.status = 200 /\ ReplacedInPlace(d))]_vars

\* C12 witness: a second create for the same user has turned the "vip"
\* record into the "trial" one.
C12_Witness ==
    /\ resp.op = "create_client_override"
    /\ resp.status = 200
    /\ resp.body.message = "Client override updated"
    /\ \E o \in referral_client_overrides :
         o.user_id = resp.user_id /\ o.reason = "trial"
    /\ Cardinality(referral_client_overrides) = 1

\* a response with a 4xx status
ClientError(r) == 400 <= r.status /\ r.status <= 499

\* C13: an update or delete that names a tier, a global override or a
\* client override of which there is no record is answered with a client
\* error, not with success.  (Stated for requests made once the tables
\* exist.)
C13_MissingRecordRejected ==
    [][ /\ \A p \in TierUpdateInputs :
             ( /\ update_tier(p[1], p[2])
               /\ ~\E t \in EnsuredTiers(referral_tiers) : t.tier_id = p[1] )
             => ClientError(resp')
        /\ \A i \in OverrideIdInputs :
             ( /\ tables_created
               /\ ~\E g \in referral_global_overrides : g.override_id = i
               /\ \/ delete_global_override(i)
                  \/ \E d \in CampaignUpdateInputs : update_global_override(i, d) )
             => ClientError(resp')
        /\ \A u \in UserIdInputs :
             ( /\ tables_created
               /\ ~\E o \in referral_client_overrides : o.user_id = u
               /\ \/ delete_client_override(u)
                  \/ \E d \in ClientUpdateInputs : update_client_override(u, d) )
             => ClientError(resp') ]_vars

\* C14: an effective bonus requested for a user_id that matches no user
\* record is answered not-found, not with a resolved percentage.
C14_UnknownUserNotFound ==
    (resp.op = "get_effective_bonus" /\ ~UserExists(resp.user_id))
    => resp.status = 404

\* C15: create_client_override for a user_id that matches no user record
\* fails with not-found and leaves the client override records as they
\* were.
C15_UnknownUserRefused ==
    [][resp'.op = "create_client_override" =>
         \A d \in ClientCreateInputs(UserIdInputs) :
            (d.user_id \notin DOMAIN users /\ create_client_override(d))
            => (resp'.status = 404 /\ UNCHANGED referral_client_overrides)]_vars

\* C15 witness: the request for an unknown user was refused while another
\* user's override is on record.
C15_Witness ==
    /\ resp.op = "create_client_override"
    /\ resp.status = 404
    /\ resp.user_id \notin DOMAIN users
    /\ referral_client_overrides # {}

\* the parts of a get_effective_bonus response that name its result
SameResult(b1, b2) ==
    /\ b1.referral_count = b2.referral_count
    /\ b1.effective_percentage = b2.effective_percentage
    /\ b1.source = b2.source
    /\ b1.label = b2.label

\* C16: a get_effective_bonus call that directly follows one for the same
\* user, at the same time and with no admin or signup operation between
\* the two, returns the same referral_count, effective_percentage, source
\* and detail as the first.
C16_RepeatedCallSameResult ==
    [][\A u \in UserIdInputs :
         (Resolved /\ resp.user_id = u /\ get_effective_bonus(u))
         => SameResult(resp.body, resp'.body)]_vars

\* C17: get_effective_bonus and get_my_tier are pure reads: from every
\* state, one with an empty tier table included, a call leaves the tier
\* table, the global overrides, the client overrides and the user records
\* unchanged.
C17_ReadsLeaveStore ==
    [][\A u \in UserIdInputs :
         (get_effective_bonus(u) \/ get_my_tier(u)) => UNCHANGED store]_vars

\* C18: for a user with no referrals and no overrides, a
\* get_effective_bonus call made while the tier table is empty returns
\* effective_percentage 10 with source default.
C18_EmptyTableDefault ==
    [][\A u \in UserIdInputs :
         ( /\ referral_tiers = {}
           /\ ReferralCount(u) = 0
           /\ referral_client_overrides = {}
           /\ referral_global_overrides = {}
           /\ get_effective_bonus(u) )
         => ( /\ resp'.body.effective_percentage = 10
              /\ resp'.body.source = "default" )]_vars

\* every bonus_percentage on record
StoredPercentages ==
    {t.bonus_percentage : t \in referral_tiers}
      \cup {g.bonus_percentage : g \in referral_global_overrides}
      \cup {o.bonus_percentage : o \in referral_client_overrides}

\* a request that carries a bonus_percentage outside 0..100 is taken
InvalidRequest ==
    \/ \E p \in TierUpdateInputs :
         p[2].bonus_percentage \notin 0..100 /\ update_tier(p[1], p[2])
    \/ create_global_override(InvalidCampaign)
    \/ update_global_override(1, InvalidCampaign)
    \/ create_client_override(InvalidClientCreate)
    \/ update_client_override(1, InvalidClientUpdate)

\* C19: a request whose bonus_percentage is outside 0..100 is rejected
\* before any write, so after any sequence of tier updates and override
\* creates and updates every stored bonus_percentage is within 0..100 and
\* so is every effective_percentage that get_effective_bonus and
\* get_my_tier return.
C19_PercentagesInRange ==
    /\ [](\A p \in StoredPercentages : p \in 0..100)
    /\ []((Resolved \/ MyTier) => resp.body.effective_percentage \in 0..100)
    /\ [][(admin_ops' # admin_ops /\ InvalidRequest)
            => (resp'.status = 422 /\ UNCHANGED store)]_vars

\* C19 witness: a request was rejected for its percentage while the
\* tiers and a client override are on record.
C19_Witness ==
    /\ resp.status = 422
    /\ referral_tiers # {}
    /\ referral_client_overrides # {}

\* each count from 0 on lies in exactly one active band: checked count by
\* count up to MaxCount + 1, from where on the one band is unbounded and
\* no other band starts
ExactlyOneBand ==
    /\ \A c \in 0..(MaxCount + 1) : Cardinality(Bands(c)) = 1
    /\ \A t \in Bands(MaxCount + 1) : t.max_referrals = NULL
    /\ \A t \in referral_tiers :
         t.is_active = TRUE => t.min_referrals <= MaxCount + 1

\* every tier row has the band and the is_active of the row it was seeded
\* as
BandsAsSeeded ==
    \A t \in referral_tiers :
       \E d \in SeededTiers :
          /\ t.tier_id = d.tier_id
          /\ t.min_referrals = d.min_referrals
          /\ t.max_referrals = d.max_referrals
          /\ t.is_active = d.is_active

\* C20: after seeding and any sequence of update_tier operations the
\* active tier bands, ordered by min_referrals, do not overlap and
\* together cover every count from 0 on, so that each count falls in
\* exactly one active band.
C20_BandsPartition == referral_tiers # {} => ExactlyOneBand

\* C20, for the band-keeping updates: the active bands partition the
\* counts from 0 on after seeding and any sequence of
\* update_tier operations that leave every tier's min_referrals,
\* max_referrals and is_active as seeded.
C20_SeededBandsPartition ==
    (referral_tiers # {} /\ BandsAsSeeded) => ExactlyOneBand

\* C20 witness: update_tier has changed a tier's percentage and no band.
C20_Witness ==
    /\ resp.op = "update_tier"
    /\ resp.status = 200
    /\ BandsAsSeeded
    /\ referral_tiers # SeededTiers
    /\ referral_tiers # {}

\* the tier_ids on record
TierIds == {t.tier_id : t \in referral_tiers}

SeededIds == {default_tiers[i].tier_id : i \in DOMAIN default_tiers}

\* C21: ensure_tier_tables inserts the five default tiers only into an
\* empty tier table; on a seeded table every later call changes nothing,
\* and from seeding on the tier_ids are the five seeded ones, one row
\* each: no operation adds or deletes a tier, and update_tier on an
\* unknown tier_id creates nothing.
C21_SeedOnce ==
    /\ [](referral_tiers # {} =>
            (TierIds = SeededIds /\ Cardinality(referral_tiers) = 5))
    /\ [][(referral_tiers = {} /\ referral_tiers' # {} /\
             resp'.op # "update_tier") => referral_tiers' = SeededTiers]_vars
    /\ [][(referral_tiers # {} /\ ~(resp'.op = "update_tier" /\ resp'.status = 200))
            => UNCHANGED referral_tiers]_vars
    /\ [][\A p \in TierUpdateInputs :
            (p[1] \notin SeededIds /\ update_tier(p[1], p[2]))
            => referral_tiers' = EnsuredTiers(referral_tiers)]_vars

\* C21 witness: a resolution has run ensure_tier_tables on a tier table
\* that an update had changed, and the change is still there.
C21_Witness ==
    /\ resp.op = "get_effective_bonus"
    /\ referral_tiers # {}
    /\ referral_tiers # SeededTiers

\* the number of accounts in us that user_id referred
ReferralsIn(us, user_id) ==
    Cardinality({i \in DOMAIN us : us[i].referred_by_user_id = user_id})

\* C22: a successful create_user with the referral code of an active user
\* R stores R as the new user's referred_by_user_id, so that R's referral
\* count grows by exactly 1 and nobody else's changes; a successful
\* signup without a code changes no referral count.
C22_SignupCounts ==
    [][(resp'.op = "create_user" /\ resp'.status = 200) =>
         \A username \in UsernameInputs, code \in CodeInputs :
            create_user(username, code) =>
              /\ Len(users') = Len(users) + 1
              /\ IF code # NULL
                 THEN \E R \in DOMAIN users :
                        /\ ReferralCodeOf(R) = code
                        /\ users[R].is_active = TRUE
                        /\ users'[Len(users')].referred_by_user_id = R
                        /\ ReferralsIn(users', R) = ReferralsIn(users, R) + 1
                        /\ \A o \in DOMAIN users' \ {R} :
                             ReferralsIn(users', o) = ReferralsIn(users, o)
                 ELSE \A o \in DOMAIN users' :
                        ReferralsIn(users', o) = ReferralsIn(users, o)]_vars

\* C22 witness: the third account, itself referred by the first, has
\* referred the account just created.
C22_Witness ==
    /\ resp.op = "create_user"
    /\ resp.status = 200
    /\ Len(users) >= 4
    /\ users[3].referred_by_user_id = 1
    /\ users[Len(users)].referred_by_user_id = 3

\* C23: create_user fails, inserts no user and changes no referral count
\* when the username is taken or when the referral code given matches no
\* active user.
C23_SignupRefused ==
    [][resp'.op = "create_user" =>
         \A username \in UsernameInputs, code \in CodeInputs :
            ( /\ \/ \E i \in DOMAIN users : users[i].username = username
                 \/ /\ code # NULL
                    /\ ~\E i \in DOMAIN users :
                          ReferralCodeOf(i) = code /\ users[i].is_active = TRUE
              /\ create_user(username, code) )
            => /\ resp'.status = 400
               /\ resp'.body.success = FALSE
               /\ users' = users]_vars

\* C23 witness: a signup was refused for its referral code after another
\* one had gone through.
C23_Witness ==
    /\ resp.op = "create_user"
    /\ resp.status = 400
    /\ resp.body.message = "Invalid referral code"
    /\ Len(users) > 2

\* net_profit is deposits less withdrawals_paid less
\* referral_earnings_paid in the record r
NetProfitAddsUp(r) ==
    r.net_profit = r.deposits - r.withdrawals_paid - r.referral_earnings_paid

\* no order and no earning falls in the day
EmptyDay(day) ==
    /\ ~\E o \in books.orders : DayOf(o.approved_at) = day
    /\ ~\E e \in books.referral_earnings : DayOf(e.created_at) = day

\* C24: in the response of get_platform_trends net_profit equals deposits
\* - withdrawals_paid - referral_earnings_paid in every day bucket and in
\* the totals, and a bucket without matching orders has zero in every
\* field.
C24_NetProfitIdentity ==
    resp.op = "get_platform_trends" =>
      /\ \A d \in DOMAIN resp.body.data :
           /\ NetProfitAddsUp(resp.body.data[d])
           /\ EmptyDay(d) =>
                resp.body.data[d] =
                  [date |-> d, deposits |-> 0, withdrawals_paid |-> 0,
                   bonus_issued |-> 0, bonus_voided |-> 0, net_profit |-> 0,
                   referral_earnings_paid |-> 0, active_clients |-> 0]
      /\ NetProfitAddsUp(resp.body.totals)

\* the amount of the pending withdrawal orders
PendingAmount ==
    LET P == {o \in books.orders :
                /\ o.order_type \in {"withdrawal", "withdrawal_game",
                                     "wallet_redeem"}
                /\ o.status \in pending_statuses}
    IN Total([o \in P |-> o.amount], P)

\* cash, bonus and play credits of the active client accounts together
CombinedBalance ==
    LET C == {a \in books.accounts : a.role = "user" /\ a.is_active = TRUE}
    IN Total([a \in C |->
                (IF a.cash_balance # NULL THEN a.cash_balance
                 ELSE IF a.real_balance # NULL THEN a.real_balance ELSE 0)
                + (IF a.bonus_balance # NULL THEN a.bonus_balance ELSE 0)
                + (IF a.play_credits # NULL THEN a.play_credits ELSE 0)], C)

\* C25: the cashout pressure indicator of get_risk_snapshot is low when
\* the pending withdrawal amount is below 20% of the total combined client
\* balance, medium when it is at least 20% and below 50%, and high when it
\* is 50% or more.  (The ratio exists when the total balance is above 0.)
C25_CashoutPressure ==
    (resp.op = "get_risk_snapshot" /\ CombinedBalance > 0) =>
      LET indicator == resp.body.cashout_pressure.indicator
          p == 100 * PendingAmount
          t == CombinedBalance
      IN /\ (p < 20 * t) => indicator = "low"
         /\ (20 * t <= p /\ p < 50 * t) => indicator = "medium"
         /\ (50 * t <= p) => indicator = "high"

\* C25 witness: 1.13 pending against a balance of 5.65 is exactly 20% and
\* is reported as medium.
C25_Witness ==
    /\ resp.op = "get_risk_snapshot"
    /\ CombinedBalance > 0
    /\ 100 * PendingAmount = 20 * CombinedBalance
    /\ resp.body.cashout_pressure.indicator = "medium"

\* the active tiers that start at or below count, and those that start
\* above it
TiersReached(count) ==
    {t \in referral_tiers : t.is_active = TRUE /\ t.min_referrals <= count}

TiersAhead(count) ==
    {t \in referral_tiers : t.is_active = TRUE /\ t.min_referrals > count}

\* the tier named as current_tier is an active tier of the greatest
\* min_referrals that is <= count
CurrentTierReached(count) ==
    \E t \in TiersReached(count) :
       /\ \A o \in TiersReached(count) : o.min_referrals <= t.min_referrals
       /\ resp.body.current_tier = t.tier_name

\* the tier named as next_tier is an active tier of the smallest
\* min_referrals that is > count, referrals_to_next is the distance to it
\* and at least 1; without such a tier both are none
NextTierAhead(count) ==
    IF TiersAhead(count) = {}
    THEN /\ resp.body.next_tier = NoName
         /\ resp.body.referrals_to_next = NULL
    ELSE \E t \in TiersAhead(count) :
            /\ \A o \in TiersAhead(count) : t.min_referrals <= o.min_referrals
            /\ resp.body.next_tier = t.tier_name
            /\ resp.body.referrals_to_next = t.min_referrals - count
            /\ resp.body.referrals_to_next >= 1

\* C26: get_my_tier reports as current_tier the active tier of the
\* greatest min_referrals that is <= the user's count, as next_tier the
\* active tier of the smallest min_referrals that is > the count (none
\* when there is no such tier), and referrals_to_next = that tier's
\* min_referrals - count, which is at least 1.
C26_CurrentTierIsActive ==
    MyTier =>
      /\ CurrentTierReached(Referrals(resp.user_id))
      /\ NextTierAhead(Referrals(resp.user_id))

\* C26, with the case of no tier reached: current_tier is then the
\* literal "Starter"; otherwise as above.
C26_CurrentAndNextTier ==
    MyTier =>
      LET count == Referrals(resp.user_id)
          reached == TiersReached(count)
          ahead == TiersAhead(count)
      IN /\ resp.body.referral_count = count
         /\ reached = {} => resp.body.current_tier = "Starter"
         /\ reached # {} => CurrentTierReached(count)
         /\ NextTierAhead(count)

\* C26 witness: with the Starter tier switched off a user below Silver
\* has reached no tier and is shown "Starter" and the distance to Silver.
C26_Witness ==
    /\ MyTier
    /\ TiersReached(Referrals(resp.user_id)) = {}
    /\ resp.body.current_tier = "Starter"
    /\ resp.body.next_tier = "Silver"
    /\ resp.body.referrals_to_next >= 1

\* (effective_percentage, source) by the precedence rule on one store s
\* at time `at`: a valid individual override, else the running campaign of
\* the highest percentage, else the matching band of the greatest
\* min_referrals, else the default
PrecedenceOn(s, user_id, at) ==
    LET count == Cardinality({i \in DOMAIN s[1] :
                                s[1][i].referred_by_user_id = user_id})
        valid == {o \in s[4] : o.user_id = user_id /\ o.is_active
                               /\ (o.expires_at = NULL \/ o.expires_at > at)}
        running == {g \in s[3] : g.is_active /\ g.start_date <= at
                                 /\ at <= g.end_date}
        bands == {t \in s[2] : /\ t.is_active
                               /\ t.min_referrals <= count
                               /\ (t.max_referrals = NULL
                                   \/ count <= t.max_referrals)}
    IN IF valid # {}
       THEN {<<o.bonus_percentage, "individual_override">> : o \in valid}
       ELSE IF running # {}
       THEN {<<g.bonus_percentage, "global_campaign">> :
               g \in {h \in running : \A q \in running :
                          q.bonus_percentage <= h.bonus_percentage}}
       ELSE IF bands # {}
       THEN {<<t.bonus_percentage, "tier">> :
               t \in {b \in bands : \A q \in bands :
                          q.min_referrals <= b.min_referrals}}
       ELSE {<<DefaultPercentage, "default">>}

\* what call c returned is the rule's result on a store of its span
OnOneStore(c) ==
    \E s \in c.seen :
       <<c.body.effective_percentage, c.body.source>>
          \in PrecedenceOn(s, c.user_id, c.at)

ReturnedCalls == {i \in DOMAIN calls : calls[i].pc = "done"}

\* C27: whatever override writes run between the reads of one
\* get_effective_bonus call, the (effective_percentage, source) it returns
\* is the precedence rule's result on one store that existed between the
\* start and the end of the call.
C27_SnapshotConsistent ==
    \A i \in ReturnedCalls : OnOneStore(calls[i])

\* C27, for a call that at most one override write ran alongside.
C27_OneWriteConsistent ==
    \A i \in ReturnedCalls : calls[i].writes <= 1 => OnOneStore(calls[i])

\* C27 witness: a call returned a campaign created while it was in
\* progress.
C27_Witness ==
    \E i \in ReturnedCalls :
       /\ calls[i].writes = 1
       /\ Cardinality(calls[i].seen) > 1
       /\ calls[i].body.source = "global_campaign"
       /\ \E s \in calls[i].seen :
            <<calls[i].body.effective_percentage, "global_campaign">>
               \notin PrecedenceOn(s, calls[i].user_id, calls[i].at)

\* requests i and j are two create_client_override calls for one user that
\* both found no record, and both have returned
RacedWrites(i, j) ==
    /\ i # j
    /\ calls[i].pc = "done" /\ calls[j].pc = "done"
    /\ calls[i].wrote > 0 /\ calls[j].wrote > calls[i].wrote
    /\ calls[i].user_id = calls[j].user_id
    /\ calls[i].existing = NoRow /\ calls[j].existing = NoRow

\* C28: of two create_client_override calls for one existing user that
\* both found no record before either inserted, both succeed, and the
\* store ends with exactly one record of the user, holding the values of
\* the later writer.
C28_LastWriterWins ==
    \A i, j \in DOMAIN calls :
       (RacedWrites(i, j)
        /\ \A k \in DOMAIN calls : k \in {i, j} \/ calls[k].user_id # calls[i].user_id)
       => /\ calls[i].status = 200 /\ calls[j].status = 200
          /\ \E o \in referral_client_overrides :
               /\ o.user_id = calls[j].user_id
               /\ o.bonus_percentage = calls[j].data.bonus_percentage
               /\ o.expires_at = calls[j].data.expires_at
               /\ o.reason = calls[j].data.reason
               /\ \A q \in referral_client_overrides :
                    q.user_id = o.user_id => q = o

\* C29: the active_override of get_global_overrides has the
\* bonus_percentage of the campaign get_effective_bonus applies, at the
\* same time and on the same overrides, to a user without an individual
\* override, and is none exactly when get_effective_bonus applies none.
C29_SameCampaign ==
    resp.op = "get_global_overrides" =>
      \A go \in SelectCampaign(now) :
         IF go = NoRow
         THEN resp.body.active_override = NoRow
         ELSE /\ resp.body.active_override # NoRow
              /\ resp.body.active_override.bonus_percentage = go.bonus_percentage

\* C30: over the compatibility functions as they are, get_effective_bonus
\* answers referral_count 0, effective_percentage 10 and source default
\* for every user, after any tier, override and signup operations.
C30_ShippedDefault ==
    resp.op = "get_effective_bonus" =>
      /\ resp.body.referral_count = 0
      /\ resp.body.effective_percentage = 10
      /\ resp.body.source = "default"

\* C30 witness: the answer for a user who has referred a signup, after an
\* administrator created an override.
C30_Witness ==
    /\ resp.op = "get_effective_bonus"
    /\ ReferralCount(resp.user_id) > 0
    /\ admin_ops > 0
    /\ resp.body.source = "default"

====
